---------------------------- MODULE Spec2Model ----------------------------
(***************************************************************************)
(* A model of NoLCAT's ingestion core:                                     *)
(*   - ConvertJSONDictToDataframe.create_dataframe (the codec),            *)
(*   - check_if_data_already_in_COUNTERData + load_data_into_database,     *)
(*   - first_new_PK_value,                                                 *)
(*   - save_unconverted_data_via_upload + upload_file_to_S3_bucket.        *)
(*                                                                         *)
(* Strings are sequences of one-character strings, so that len(), slices,  *)
(* strip(), endswith() and the regular expressions act on characters.      *)
(* JSON scalars are tagged records: Str(s), None, IntV(n); dates held in   *)
(* the working record are DateV(y, m, d).                                  *)
(***************************************************************************)
EXTENDS Integers, Sequences, FiniteSets, TLC

\* ------------------------------------------------------------------ bounds
\* The longest document (number of Report_Items) drawn as an input.
MaxItems == 3

\* ------------------------------------------------- field length constants
RESOURCE_NAME_LENGTH == 2000
PUBLISHER_LENGTH == 225
PUBLISHER_ID_LENGTH == 50
PLATFORM_LENGTH == 75
AUTHORS_LENGTH == 1000
DOI_LENGTH == 75
PROPRIETARY_ID_LENGTH == 100
URI_LENGTH == 250

\* ----------------------------------------------------------------- values
None == [t |-> "none"]
Str(s) == [t |-> "str", s |-> s]
IntV(n) == [t |-> "int", n |-> n]
DateV(y, m, d) == [t |-> "date", y |-> y, m |-> m, d |-> d]

IsNone(v) == v.t = "none"
IsStr(v) == v.t = "str"

\* n copies of the character c
Rep(c, n) == [k \in 1..n |-> c]

Digits == {"0", "1", "2", "3", "4", "5", "6", "7", "8", "9"}
DigitVal(c) ==
    CASE c = "0" -> 0 [] c = "1" -> 1 [] c = "2" -> 2 [] c = "3" -> 3
      [] c = "4" -> 4 [] c = "5" -> 5 [] c = "6" -> 6 [] c = "7" -> 7
      [] c = "8" -> 8 [] c = "9" -> 9
Whitespace == {" ", "\t", "\n"}

\* s[:n]
Prefix(s, n) == SubSeq(s, 1, IF n < Len(s) THEN n ELSE Len(s))
\* s[-n:]
Suffix(s, n) == SubSeq(s, IF Len(s) > n THEN Len(s) - n + 1 ELSE 1, Len(s))
\* s.startswith(p)
StartsWith(s, p) == Len(s) >= Len(p) /\ SubSeq(s, 1, Len(p)) = p
\* s.endswith(p)
EndsWith(s, p) == Len(s) >= Len(p) /\ Suffix(s, Len(p)) = p

RECURSIVE LStrip(_)
LStrip(s) == IF s # <<>> /\ Head(s) \in Whitespace THEN LStrip(Tail(s)) ELSE s
RECURSIVE RStrip(_)
RStrip(s) ==
    IF s # <<>> /\ s[Len(s)] \in Whitespace
    THEN RStrip(SubSeq(s, 1, Len(s) - 1))
    ELSE s
\* s.strip()
Strip(s) == RStrip(LStrip(s))

RECURSIVE NumVal(_)
\* the number a sequence of digits denotes
NumVal(s) ==
    IF s = <<>> THEN 0 ELSE 10 * NumVal(SubSeq(s, 1, Len(s) - 1)) + DigitVal(s[Len(s)])
AllDigits(s) == \A k \in 1..Len(s) : s[k] \in Digits

\* ----------------------------------------------------------- dictionaries
\* d[k] = v
Put(d, k, v) == [x \in (DOMAIN d) \cup {k} |-> IF x = k THEN v ELSE d[x]]
\* d.pop(k) / del d[k]
Drop(d, k) == [x \in (DOMAIN d) \ {k} |-> d[x]]
Has(d, k) == k \in DOMAIN d


\* ------------------------------------------------------------- tag strings
T_Author == <<"A", "u", "t", "h", "o", "r">>
T_author == <<"a", "u", "t", "h", "o", "r">>
T_Editor == <<"E", "d", "i", "t", "o", "r">>
T_Proprietary == <<"P", "r", "o", "p", "r", "i", "e", "t", "a", "r", "y">>
T_proprietary == <<"p", "r", "o", "p", "r", "i", "e", "t", "a", "r", "y">>
T_PROPRIETARY == <<"P", "R", "O", "P", "R", "I", "E", "T", "A", "R", "Y">>
T_Proprietary_ID == T_Proprietary \o <<"_", "I", "D">>
T_DOI == <<"D", "O", "I">>
T_ISBN == <<"I", "S", "B", "N">>
T_ISNI == <<"I", "S", "N", "I">>
T_Print_ISSN == <<"P", "r", "i", "n", "t", "_", "I", "S", "S", "N">>
T_Online_ISSN == <<"O", "n", "l", "i", "n", "e", "_", "I", "S", "S", "N">>
T_URI == <<"U", "R", "I">>
T_Publication_Date ==
    <<"P", "u", "b", "l", "i", "c", "a", "t", "i", "o", "n", "_", "D", "a", "t", "e">>
T_First_Accessed == <<"F", "i", "r", "s", "t">>
T_Article_Version ==
    <<"A", "r", "t", "i", "c", "l", "e", "_", "V", "e", "r", "s", "i", "o", "n">>
ET_AL == <<" ", "e", "t", " ", "a", "l", ".">>
SEMICOLON_SPACE == <<";", " ">>
HYPHEN == <<"-">>
SENTINEL_1000 == <<"1", "0", "0", "0", "-", "0", "1", "-", "0", "1">>
SENTINEL_1753 == <<"1", "7", "5", "3", "-", "0", "1", "-", "0", "1">>
SENTINEL_1900 == <<"1", "9", "0", "0", "-", "0", "1", "-", "0", "1">>

\* -------------------------------------------------------- regular expressions
\* re.match(r'[Aa]uthor', string=s): a match at the start of s, not of all of s
MatchAuthor(s) == StartsWith(s, T_Author) \/ StartsWith(s, T_author)

\* re.match(r'[Pp]roprietary(_ID)?', string=s): a match at the start of s
MatchProprietary(s) == StartsWith(s, T_Proprietary) \/ StartsWith(s, T_proprietary)

\* re.match(r'\d{4}\-\d{3}[\dxX]\s*', string=s): a match at the start of s
MatchISSN(s) ==
    /\ Len(s) >= 9
    /\ \A k \in {1, 2, 3, 4, 6, 7, 8} : s[k] \in Digits
    /\ s[5] = "-"
    /\ s[9] \in Digits \cup {"x", "X"}

\* ------------------------------------------------------------------- dates
IsLeap(y) == (y % 4 = 0 /\ y % 100 # 0) \/ y % 400 = 0
DaysInMonth(y, m) ==
    IF m \in {4, 6, 9, 11} THEN 30
    ELSE IF m = 2 THEN (IF IsLeap(y) THEN 29 ELSE 28)
    ELSE 31

\* whether datetime.date.fromisoformat(s) returns for the character sequence s
\* (the YYYY-MM-DD form of Python before 3.11); it raises ValueError otherwise
IsISODate(s) ==
    /\ Len(s) = 10
    /\ \A k \in {1, 2, 3, 4, 6, 7, 9, 10} : s[k] \in Digits
    /\ s[5] = "-" /\ s[8] = "-"
    /\ NumVal(SubSeq(s, 1, 4)) >= 1
    /\ NumVal(SubSeq(s, 6, 7)) \in 1..12
    /\ NumVal(SubSeq(s, 9, 10)) \in
          1..DaysInMonth(NumVal(SubSeq(s, 1, 4)), NumVal(SubSeq(s, 6, 7)))

\* datetime.date.fromisoformat(s), for s with IsISODate(s)
FromISOFormat(s) ==
    DateV(NumVal(SubSeq(s, 1, 4)), NumVal(SubSeq(s, 6, 7)), NumVal(SubSeq(s, 9, 10)))

\* whether parser.isoparse(s) returns: a date alone, or a date, "T" and a time
\* (the time of day is not looked at by the model: .date() discards it)
IsISOTimestamp(s) ==
    /\ Len(s) >= 10
    /\ IsISODate(SubSeq(s, 1, 10))
    /\ Len(s) > 10 => s[11] = "T"

\* parser.isoparse(s).date()
IsoparseDate(s) == FromISOFormat(SubSeq(s, 1, 10))

\* SuggestedLength without the tenth added
SuggestedLength_FoundLength(n) == n
\* the length the log asks for: int(len + len * 0.1)
SuggestedLength(n) == n + (n \div 10)

\* ---------------------------------------------------- the working state
\* rd: record_dict; inc: the entries of include_in_df_dtypes that are not False;
\* st: "ok" while the method runs on, "abort" once it returned the empty
\* dataframe, "raise" once an exception left it; log: the logged error messages
SetField(s, field, v) == [s EXCEPT !.rd = Put(s.rd, field, v)]
Include(s, field, dtype) == [s EXCEPT !.inc = Put(s.inc, field, dtype)]
\* logging.error("Increase the ... max field length to ..."); return pd.DataFrame()
AbortTooLong(s, field, n) ==
    [s EXCEPT !.st = "abort",
              !.log = Append(s.log, [field |-> field, length |-> SuggestedLength(n)])]
\* an exception propagates out of create_dataframe
Raise(s, exc) == [s EXCEPT !.st = "raise", !.exc = exc]

\* GuardedStore with the over-long value skipped instead of ending the method
GuardedStore_SkipsField(s, field, v, max, dtype) ==
    IF Len(v.s) > max THEN s ELSE Include(SetField(s, field, v), field, dtype)

\* elif len(value) > MAX: abort; else: store and mark for df_dtypes
GuardedStore(s, field, v, max, dtype) ==
    IF Len(v.s) > max
    THEN AbortTooLong(s, field, Len(v.s))
    ELSE Include(SetField(s, field, v), field, dtype)

\* "Database" / "Title" / "Item", "Publisher": a None is stored unmarked
ScalarNoneOrGuarded(s, field, v, max) ==
    IF IsNone(v) THEN SetField(s, field, v)
    ELSE GuardedStore(s, field, v, max, "string")

\* "Platform": as above, but the field is never marked in include_in_df_dtypes
PlatformStore(s, v) ==
    IF IsNone(v) THEN SetField(s, "platform", v)
    ELSE IF Len(v.s) > PLATFORM_LENGTH
         THEN AbortTooLong(s, "platform", Len(v.s))
         ELSE SetField(s, "platform", v)

\* a JSON list / a JSON object (its entries in document order)
ListV(l) == [t |-> "list", l |-> l]
DictV(entries) == [t |-> "dict", entries |-> entries]
\* str(x)
StrOf(v) == IF IsNone(v) THEN <<"N", "o", "n", "e">> ELSE v.s
\* bool(x) of what record_dict.get() returns: None and "" are false
Truthy(v) == IsStr(v) /\ v.s # <<>>

\* ------------------------------------------------------------ Publisher_ID
\* one pass of `for type_and_value in value` (several entries)
PublisherIDEntry(s, e) ==
    IF MatchProprietary(e.Type)
    THEN IF IsNone(e.Value) THEN Raise(s, "TypeError")
         ELSE GuardedStore(s, "publisher_ID", e.Value, PUBLISHER_ID_LENGTH, "string")
    ELSE s

RECURSIVE PublisherIDLoop(_, _, _)
PublisherIDLoop(s, l, k) ==
    IF k > Len(l) \/ s.st # "ok" THEN s
    ELSE PublisherIDLoop(PublisherIDEntry(s, l[k]), l, k + 1)

PublisherIDStore(s, v) ==
    IF IsNone(v) THEN SetField(s, "publisher_ID", v)
    ELSE IF Len(v.l) = 1
         THEN IF IsNone(v.l[1].Value) THEN Raise(s, "TypeError")
              ELSE GuardedStore(s, "publisher_ID", v.l[1].Value,
                                PUBLISHER_ID_LENGTH, "string")
         ELSE PublisherIDLoop(s, v.l, 1)

\* ------------------------------------------------------- Item_Contributors
\* the branch taken when record_dict already holds a non-empty authors value;
\* field is "authors" or "parent_authors". The item's debug message on the
\* " et al." branch formats record_dict['parent_authors'], which raises KeyError
\* when no parent authors have been stored.
AuthorAccumulate(s, field, e) ==
    IF EndsWith(s.rd[field].s, ET_AL) THEN s
    ELSE IF IsNone(e.Name) THEN Raise(s, "TypeError")
    ELSE IF Len(s.rd[field].s) + Len(e.Name.s) + 8 > AUTHORS_LENGTH
         THEN IF Has(s.rd, "parent_authors")
              THEN SetField(s, field, Str(s.rd[field].s \o ET_AL))
              ELSE Raise(SetField(s, field, Str(s.rd[field].s \o ET_AL)), "KeyError")
         ELSE SetField(s, field, Str(s.rd[field].s \o SEMICOLON_SPACE \o e.Name.s))

\* the branch taken for the first author of an item
AuthorFirst(s, e) ==
    IF IsNone(e.Name) THEN SetField(s, "authors", e.Name)
    ELSE GuardedStore(s, "authors", e.Name, AUTHORS_LENGTH, "string")

\* the branch taken for the first author of a parent: no None test, and the
\* message names `COUNTERData.authors`
ParentAuthorFirst(s, e) ==
    IF IsNone(e.Name) THEN Raise(s, "TypeError")
    ELSE IF Len(e.Name.s) > AUTHORS_LENGTH
         THEN AbortTooLong(s, "authors", Len(e.Name.s))
         ELSE Include(SetField(s, "parent_authors", e.Name), "parent_authors", "string")

AuthorEntry(s, parent, e) ==
    LET field == IF parent THEN "parent_authors" ELSE "authors" IN
    IF ~MatchAuthor(e.Type) THEN s
    ELSE IF Has(s.rd, field) /\ Truthy(s.rd[field])
         THEN AuthorAccumulate(s, field, e)
         ELSE IF parent THEN ParentAuthorFirst(s, e) ELSE AuthorFirst(s, e)

RECURSIVE AuthorLoop(_, _, _, _)
AuthorLoop(s, parent, l, k) ==
    IF k > Len(l) \/ s.st # "ok" THEN s
    ELSE AuthorLoop(AuthorEntry(s, parent, l[k]), parent, l, k + 1)

\* --------------------------------------------------------------- Item_Dates
IsSentinelDate(v) ==
    IsStr(v) /\ v.s \in {SENTINEL_1000, SENTINEL_1753, SENTINEL_1900}

\* the item's loop body: a value that cannot be parsed is skipped (bare except)
DateEntry(s, e) ==
    IF IsSentinelDate(e.Value) THEN s
    ELSE IF e.Type = T_Publication_Date
         THEN IF IsStr(e.Value) /\ IsISODate(e.Value.s)
              THEN Include(SetField(s, "publication_date", FromISOFormat(e.Value.s)),
                           "publication_date", "True")
              ELSE s
         ELSE s

\* the parent's loop body: no try, so a value that cannot be parsed raises
ParentDateEntry(s, e) ==
    IF IsSentinelDate(e.Value) THEN s
    ELSE IF e.Type = T_Publication_Date
         THEN IF IsNone(e.Value) THEN Raise(s, "TypeError")
              ELSE IF IsISODate(e.Value.s)
                   THEN Include(SetField(s, "parent_publication_date",
                                         FromISOFormat(e.Value.s)),
                                "parent_publication_date", "True")
                   ELSE Raise(s, "ValueError")
         ELSE s

RECURSIVE DateLoop(_, _, _, _)
DateLoop(s, parent, l, k) ==
    IF k > Len(l) \/ s.st # "ok" THEN s
    ELSE DateLoop(IF parent THEN ParentDateEntry(s, l[k]) ELSE DateEntry(s, l[k]),
                  parent, l, k + 1)

\* ---------------------------------------------------------- Item_Attributes
AttributeEntry(s, field, e) ==
    IF e.Type = T_Article_Version
    THEN Include(SetField(s, field, e.Value), field, "string")
    ELSE s

RECURSIVE AttributeLoop(_, _, _, _)
AttributeLoop(s, field, l, k) ==
    IF k > Len(l) \/ s.st # "ok" THEN s
    ELSE AttributeLoop(AttributeEntry(s, field, l[k]), field, l, k + 1)

\* ------------------------------------------------------------------ Item_ID
\* the value stored for a Print_ISSN / Online_ISSN entry
ISSNValue(v) ==
    IF MatchISSN(v) THEN Strip(v)
    ELSE Prefix(v, 5) \o HYPHEN \o Suffix(Strip(v), 4)

\* one pass of `for type_and_value in value`; the p* are the item's field names
\* or the parent's
IdentifierEntry(s, pDOI, pProp, pISBN, pPrint, pOnline, pURI, e) ==
    IF e.Type = T_DOI
    THEN IF IsNone(e.Value) THEN Raise(s, "TypeError")
         ELSE GuardedStore(s, pDOI, e.Value, DOI_LENGTH, "string")
    ELSE IF MatchProprietary(e.Type)
    THEN IF IsNone(e.Value) THEN Raise(s, "TypeError")
         ELSE GuardedStore(s, pProp, e.Value, PROPRIETARY_ID_LENGTH, "string")
    ELSE IF e.Type = T_ISBN
    THEN Include(SetField(s, pISBN, Str(StrOf(e.Value))), pISBN, "string")
    ELSE IF e.Type = T_Print_ISSN
    THEN IF IsNone(e.Value) THEN Raise(s, "TypeError")
         ELSE Include(SetField(s, pPrint, Str(ISSNValue(e.Value.s))), pPrint, "string")
    ELSE IF e.Type = T_Online_ISSN
    THEN IF IsNone(e.Value) THEN Raise(s, "TypeError")
         ELSE Include(SetField(s, pOnline, Str(ISSNValue(e.Value.s))), pOnline, "string")
    ELSE IF e.Type = T_URI
    THEN IF IsNone(e.Value) THEN Raise(s, "TypeError")
         ELSE GuardedStore(s, pURI, e.Value, URI_LENGTH, "string")
    ELSE s

ItemIdentifierEntry(s, e) ==
    IdentifierEntry(s, "DOI", "proprietary_ID", "ISBN", "print_ISSN", "online_ISSN",
                    "URI", e)

ParentIdentifierEntry(s, e) ==
    IdentifierEntry(s, "parent_DOI", "parent_proprietary_ID", "parent_ISBN",
                    "parent_print_ISSN", "parent_online_ISSN", "parent_URI", e)

RECURSIVE IdentifierLoop(_, _, _, _)
IdentifierLoop(s, parent, l, k) ==
    IF k > Len(l) \/ s.st # "ok" THEN s
    ELSE IdentifierLoop(IF parent THEN ParentIdentifierEntry(s, l[k])
                                  ELSE ItemIdentifierEntry(s, l[k]),
                        parent, l, k + 1)

\* ---------------------------------------------------------------------- YOP
\* whether int(value) returns: an int, or a string of digits (spaces around it
\* are allowed); a None or any other string raises, which the bare except takes
IntParses(v) ==
    \/ v.t = "int"
    \/ IsStr(v) /\ Strip(v.s) # <<>> /\ AllDigits(Strip(v.s))
IntOf(v) == IF v.t = "int" THEN v.n ELSE NumVal(Strip(v.s))

YOPStore(s, v) ==
    IF IntParses(v)
    THEN Include(SetField(s, "YOP", IntV(IntOf(v))), "YOP", "Int64")
    ELSE SetField(s, "YOP", None)

\* -------------------------------------------------------------- Item_Parent
\* one pass of `for key_for_parent, value_for_parent in value.items()`
ParentKey(s, key, value) ==
    CASE key = "Item_Name" ->
            IF IsNone(value) THEN Raise(s, "TypeError")
            ELSE GuardedStore(s, "parent_title", value, RESOURCE_NAME_LENGTH, "string")
      [] key = "Item_Contributors" -> AuthorLoop(s, TRUE, value.l, 1)
      [] key = "Item_Dates" -> DateLoop(s, TRUE, value.l, 1)
      [] key = "Item_Attributes" -> AttributeLoop(s, "parent_article_version", value.l, 1)
      [] key = "Data_Type" ->
            Include(SetField(s, "parent_data_type", value), "parent_data_type", "string")
      [] key = "Item_ID" -> IdentifierLoop(s, TRUE, value.l, 1)
      [] OTHER -> s

RECURSIVE ParentLoop(_, _, _)
ParentLoop(s, entries, k) ==
    IF k > Len(entries) \/ s.st # "ok" THEN s
    ELSE ParentLoop(ParentKey(s, entries[k].key, entries[k].value), entries, k + 1)

\* a dict inside a one-item list is unwrapped; any other list has no .items()
ParentStore(s, v) ==
    IF v.t = "list"
    THEN IF Len(v.l) = 1 THEN ParentLoop(s, v.l[1].entries, 1)
         ELSE Raise(s, "AttributeError")
    ELSE ParentLoop(s, v.entries, 1)

\* ------------------------------------------------------- one key of an item
\* one pass of `for key, value in record.items()`
VisitKey(s, key, value) ==
    CASE key \in {"Database", "Title", "Item"} ->
            ScalarNoneOrGuarded(s, "resource_name", value, RESOURCE_NAME_LENGTH)
      [] key = "Publisher" ->
            ScalarNoneOrGuarded(s, "publisher", value, PUBLISHER_LENGTH)
      [] key = "Publisher_ID" -> PublisherIDStore(s, value)
      [] key = "Platform" -> PlatformStore(s, value)
      [] key = "Item_Contributors" -> AuthorLoop(s, FALSE, value.l, 1)
      [] key = "Item_Dates" -> DateLoop(s, FALSE, value.l, 1)
      [] key = "Item_Attributes" -> AttributeLoop(s, "article_version", value.l, 1)
      [] key = "Item_ID" -> IdentifierLoop(s, FALSE, value.l, 1)
      [] key = "Data_Type" ->
            Include(SetField(s, "data_type", value), "data_type", "string")
      [] key = "Section_Type" ->
            Include(SetField(s, "section_type", value), "section_type", "string")
      [] key = "YOP" -> YOPStore(s, value)
      [] key = "Access_Type" ->
            Include(SetField(s, "access_type", value), "access_type", "string")
      [] key = "Access_Method" ->
            Include(SetField(s, "access_method", value), "access_method", "string")
      [] key = "Item_Parent" -> ParentStore(s, value)
      [] key = "Performance" -> SetField(s, "temp", value)
      [] OTHER -> s

\* ------------------------------------------------- Performance (the fan-out)
\* EmitInstance without the deepcopy: the records appended from this record_dict
\* are the dictionary itself and follow its assignments
EmitInstance_AppendsReference(rd, list, instance) ==
    LET rd2 == Put(Put(rd, "metric_type", instance.Metric_Type),
                   "usage_count", instance.Count)
        alias(r) == \A f \in (DOMAIN rd) \ {"usage_date", "metric_type", "usage_count"} :
                        f \in DOMAIN r /\ r[f] = rd[f]
    IN  [rd |-> rd2,
         list |-> Append([k \in 1..Len(list) |-> IF alias(list[k]) THEN rd2 ELSE list[k]],
                         rd2)]
\* one pass of `for instance in period_grouping['Instance']`: the two
\* assignments and the append of a deep copy
EmitInstance(rd, list, instance) ==
    LET rd2 == Put(Put(rd, "metric_type", instance.Metric_Type),
                   "usage_count", instance.Count)
    IN  [rd |-> rd2, list |-> Append(list, rd2)]

\* InstanceLoop with the append moved out of the loop: one record per period
InstanceLoop_AppendsAfterLoop(rd, list, instances, k) ==
    IF instances = <<>> THEN [rd |-> rd, list |-> list]
    ELSE EmitInstance(rd, list, instances[Len(instances)])

RECURSIVE InstanceLoop(_, _, _, _)
\* `for instance in period_grouping['Instance']`
InstanceLoop(rd, list, instances, k) ==
    IF k > Len(instances) THEN [rd |-> rd, list |-> list]
    ELSE LET r == EmitInstance(rd, list, instances[k])
         IN  InstanceLoop(r.rd, r.list, instances, k + 1)

\* ------------------------------------------------------ dataframe creation
DigitChar(n) ==
    CASE n = 0 -> "0" [] n = 1 -> "1" [] n = 2 -> "2" [] n = 3 -> "3" [] n = 4 -> "4"
      [] n = 5 -> "5" [] n = 6 -> "6" [] n = 7 -> "7" [] n = 8 -> "8" [] n = 9 -> "9"
\* date.isoformat(), used by _serialize_dates
ISOFormat(d) ==
    << DigitChar((d.y \div 1000) % 10), DigitChar((d.y \div 100) % 10),
       DigitChar((d.y \div 10) % 10), DigitChar(d.y % 10), "-",
       DigitChar((d.m \div 10) % 10), DigitChar(d.m % 10), "-",
       DigitChar((d.d \div 10) % 10), DigitChar(d.d % 10) >>

\* a value after json.dumps(..., default=_serialize_dates), pd.read_json and
\* pd.to_datetime: a date goes through its ISO text, the rest is kept
FrameValue(v) == IF v.t = "date" THEN FromISOFormat(ISOFormat(v)) ELSE v

\* the columns pd.read_json finds: every key of every record
FrameColumns(list) == UNION {DOMAIN list[k] : k \in 1..Len(list)}

\* the keys of df_dtypes: the marked fields that are not dates, and three more
DfDtypes(inc) ==
    {f \in DOMAIN inc : inc[f] # "True"} \cup {"platform", "metric_type", "usage_count"}

\* whether the dataframe section runs through: df.astype(df_dtypes) raises
\* KeyError for a key that is no column, and each df[...] of a date column
\* raises KeyError when the column is missing
FrameBuilds(list, inc) ==
    /\ DfDtypes(inc) \subseteq FrameColumns(list)
    /\ {f \in DOMAIN inc : inc[f] = "True"} \subseteq FrameColumns(list)
    /\ {"usage_date", "report_creation_date"} \subseteq FrameColumns(list)

\* the rows of the returned dataframe: a record has a null in every column it
\* does not set
FrameRows(list) ==
    [k \in 1..Len(list) |->
        [c \in FrameColumns(list) |->
            IF c \in DOMAIN list[k] THEN FrameValue(list[k][c]) ELSE None]]

\* ------------------------------------------------------ the input documents
D_JAN == <<"2", "0", "2", "3", "-", "0", "1", "-", "0", "1">>
D_FEB == <<"2", "0", "2", "3", "-", "0", "2", "-", "0", "1">>
CREATED_OK ==
    <<"2", "0", "2", "3", "-", "0", "6", "-", "1", "5", "T", "1", "0", ":", "0", "0",
      ":", "0", "0", "Z">>
CREATED_BAD == <<"n", "/", "a">>
M_TIR == <<"T", "I", "R">>
M_UIR == <<"U", "I", "R">>

Entry(k, v) == [key |-> k, value |-> v]
TV(type, value) == [Type |-> type, Value |-> value]
TN(type, name) == [Type |-> type, Name |-> name]
Inst(metric, count) == [Metric_Type |-> Str(metric), Count |-> IntV(count)]
PeriodGroup(begin, instances) ==
    [Period |-> [Begin_Date |-> begin], Instance |-> instances]

\* Performance payloads with 0, 1 and 3 (period, instance) pairs
Perf0 == ListV(<<>>)
Perf1 == ListV(<<PeriodGroup(D_JAN, <<Inst(M_TIR, 5)>>)>>)
Perf3 == ListV(<<PeriodGroup(D_JAN, <<Inst(M_TIR, 5), Inst(M_UIR, 3)>>),
                 PeriodGroup(D_FEB, <<Inst(M_TIR, 2)>>)>>)

\* The items a document is drawn from.
ItemPlain ==
    <<Entry("Title", Str(<<"T">>)), Entry("Platform", Str(<<"P">>)),
      Entry("Data_Type", Str(<<"B">>)), Entry("Performance", Perf3)>>
ItemNoUsage ==
    <<Entry("Performance", Perf0), Entry("Database", Str(<<"D">>)),
      Entry("Platform", Str(<<"P">>))>>
ItemLongTitle ==
    <<Entry("Platform", Str(<<"P">>)), Entry("Performance", Perf1),
      Entry("Title", Str(Rep("t", RESOURCE_NAME_LENGTH + 1)))>>
ItemMaxPlatform ==
    <<Entry("Item", Str(<<"I">>)), Entry("Platform", Str(Rep("p", PLATFORM_LENGTH))),
      Entry("Publisher", None), Entry("Performance", Perf1)>>
ItemLongPublisherID ==
    <<Entry("Title", Str(<<"T">>)), Entry("Platform", Str(<<"P">>)),
      Entry("Performance", Perf1),
      Entry("Publisher_ID",
            ListV(<<TV(T_Proprietary, Str(Rep("i", PUBLISHER_ID_LENGTH + 1)))>>))>>
ItemParentLongDOI ==
    <<Entry("Platform", Str(<<"P">>)),
      Entry("Item_Parent",
            DictV(<<Entry("Item_Name", Str(<<"B", "k">>)),
                    Entry("Item_ID", ListV(<<TV(T_DOI, Str(Rep("d", DOI_LENGTH + 1)))>>))>>)),
      Entry("Performance", Perf1)>>
ItemParentManyAuthors ==
    <<Entry("Title", Str(<<"C", "h">>)), Entry("Platform", Str(<<"P">>)),
      Entry("Item_Parent",
            ListV(<<DictV(<<Entry("Item_Name", Str(<<"B", "k">>)),
                            Entry("Item_Contributors",
                                  ListV(<<TN(T_Author, Str(Rep("a", AUTHORS_LENGTH - 6))),
                                          TN(T_Author, Str(<<"B">>)),
                                          TN(T_Author, Str(<<"C">>))>>))>>)>>)),
      Entry("Performance", Perf1)>>
ItemNoPerformance ==
    <<Entry("Title", Str(<<"T">>)), Entry("Platform", Str(<<"P">>))>>

ItemCatalog ==
    <<ItemPlain, ItemNoUsage, ItemLongTitle, ItemMaxPlatform, ItemLongPublisherID,
      ItemParentLongDOI, ItemParentManyAuthors, ItemNoPerformance>>
ItemIds == 1..Len(ItemCatalog)

\* Items with one Print_ISSN or Online_ISSN identifier, of the item or of its
\* parent: a core with up to MaxPad blanks before and after it.
MaxPad == 1
ISSNCores ==
    <<<<"1", "2", "3", "4", "-", "5", "6", "7", "8">>,
      <<"1", "2", "3", "4", "-", "5", "6", "7", "X">>,
      <<"1", "2", "3", "4", "5", "6", "7", "8">>,
      <<"1", "2", "3", "4", "-", "5", "6", "7", "8", "9">>,
      <<"1", "2", "3", "4", "-", "5", "6", "7", "x", " ", "b">>,
      <<"1", "2", "3">>,
      <<>>>>
ISSNKinds ==
    <<[type |-> T_Print_ISSN, parent |-> FALSE], [type |-> T_Online_ISSN, parent |-> FALSE],
      [type |-> T_Print_ISSN, parent |-> TRUE], [type |-> T_Online_ISSN, parent |-> TRUE]>>
ISSNItemCount == Len(ISSNCores) * (MaxPad + 1) * (MaxPad + 1) * Len(ISSNKinds)
\* the identifier value of the n-th such item (n from 0)
ISSNInput(n) ==
    LET m == n \div Len(ISSNKinds)
    IN  Rep(" ", m % (MaxPad + 1))
            \o ISSNCores[(m \div ((MaxPad + 1) * (MaxPad + 1))) + 1]
            \o Rep(" ", (m \div (MaxPad + 1)) % (MaxPad + 1))
ISSNKind(n) == ISSNKinds[(n % Len(ISSNKinds)) + 1]
ISSNItem(n) ==
    LET ids == Entry("Item_ID", ListV(<<TV(ISSNKind(n).type, Str(ISSNInput(n)))>>))
    IN  <<Entry("Title", Str(<<"J">>)), Entry("Platform", Str(<<"P">>)),
          IF ISSNKind(n).parent THEN Entry("Item_Parent", DictV(<<ids>>)) ELSE ids,
          Entry("Performance", Perf1)>>
ISSNItems == [k \in 1..ISSNItemCount |-> ISSNItem(k - 1)]
ISSNItemIds == (Len(ItemCatalog) + 1)..(Len(ItemCatalog) + ISSNItemCount)

\* Items with a list of authors, of the item, of its parent, or of its parent
\* and then of the item: a first author of one of three lengths and up to
\* MaxLater authors of one letter after it.
MaxLater == 3
AuthorFirstLengths == <<1, AUTHORS_LENGTH - 9, AUTHORS_LENGTH - 8>>
AuthorPlaces == <<"item", "parent", "both">>
LaterLetters == <<"B", "C", "D", "E", "F">>
AuthorItemCount == Len(AuthorPlaces) * Len(AuthorFirstLengths) * (MaxLater + 1)
AuthorList(first, later) ==
    ListV(<<TN(T_Author, Str(Rep("a", first)))>>
          \o [k \in 1..later |-> TN(T_Author, Str(<<LaterLetters[k]>>))])
AuthorItem(n) ==
    LET place == AuthorPlaces[(n % Len(AuthorPlaces)) + 1]
        m == n \div Len(AuthorPlaces)
        authors == AuthorList(AuthorFirstLengths[(m % Len(AuthorFirstLengths)) + 1],
                              m \div Len(AuthorFirstLengths))
        head == <<Entry("Title", Str(<<"C", "h">>)), Entry("Platform", Str(<<"P">>))>>
        tail == <<Entry("Performance", Perf1)>>
    IN  CASE place = "item" -> head \o <<Entry("Item_Contributors", authors)>> \o tail
          [] place = "parent" ->
                head \o <<Entry("Item_Parent",
                                 DictV(<<Entry("Item_Contributors", authors)>>))>> \o tail
          [] place = "both" ->
                head \o <<Entry("Item_Parent",
                                 DictV(<<Entry("Item_Contributors", AuthorList(1, 0))>>)),
                          Entry("Item_Contributors", authors)>> \o tail
AuthorItems == [k \in 1..AuthorItemCount |-> AuthorItem(k - 1)]
AuthorItemIds ==
    (Len(ItemCatalog) + ISSNItemCount + 1)..(Len(ItemCatalog) + ISSNItemCount + AuthorItemCount)

\* Items with a Publisher_ID list of up to MaxIDs entries, each entry of one of
\* five type tags and with a value that tells its tag and its place.
MaxIDs == 3
PublisherIDTypes == <<T_ISNI, T_Proprietary, T_Proprietary_ID, T_proprietary, T_PROPRIETARY>>
RECURSIVE Power(_, _)
Power(b, e) == IF e = 0 THEN 1 ELSE b * Power(b, e - 1)
\* the n-th list of len entries (n from 0)
PublisherIDList(n, len) ==
    [k \in 1..len |->
        LET t == ((n \div Power(Len(PublisherIDTypes), k - 1)) % Len(PublisherIDTypes)) + 1
        IN  TV(PublisherIDTypes[t], Str(<<DigitChar(t), DigitChar(k)>>))]
PublisherIDItem(n, len) ==
    <<Entry("Title", Str(<<"T">>)), Entry("Platform", Str(<<"P">>)),
      Entry("Publisher_ID", ListV(PublisherIDList(n, len))), Entry("Performance", Perf1)>>
RECURSIVE PublisherIDItemsUpTo(_)
PublisherIDItemsUpTo(len) ==
    IF len = 0 THEN <<>>
    ELSE PublisherIDItemsUpTo(len - 1)
            \o [k \in 1..Power(Len(PublisherIDTypes), len) |-> PublisherIDItem(k - 1, len)]
PublisherIDItems == PublisherIDItemsUpTo(MaxIDs)

\* Items with an Item_Dates list of up to MaxDates entries, of the item or of
\* its parent: each entry of one of two type tags and one of six values.
MaxDates == 2
D_PUBLISHED == <<"2", "0", "2", "0", "-", "0", "5", "-", "0", "5">>
DateTypes == <<T_Publication_Date, T_First_Accessed>>
DateValues ==
    <<Str(D_PUBLISHED), Str(SENTINEL_1000), Str(SENTINEL_1753), Str(SENTINEL_1900),
      Str(CREATED_BAD), None>>
DateEntryCount == Len(DateTypes) * Len(DateValues)
\* the n-th list of len entries (n from 0)
DateList(n, len) ==
    [k \in 1..len |->
        LET e == (n \div Power(DateEntryCount, k - 1)) % DateEntryCount
        IN  TV(DateTypes[(e % Len(DateTypes)) + 1], DateValues[(e \div Len(DateTypes)) + 1])]
DateItem(n, len, parent) ==
    LET dates == Entry("Item_Dates", ListV(DateList(n, len)))
    IN  <<Entry("Title", Str(<<"T">>)), Entry("Platform", Str(<<"P">>)),
          IF parent THEN Entry("Item_Parent", DictV(<<dates>>)) ELSE dates,
          Entry("Performance", Perf1)>>
RECURSIVE DateItemsUpTo(_)
DateItemsUpTo(len) ==
    IF len = 0 THEN <<>>
    ELSE DateItemsUpTo(len - 1)
            \o [k \in 1..(2 * Power(DateEntryCount, len)) |->
                    DateItem((k - 1) \div 2, len, (k - 1) % 2 = 1)]
DateItems == DateItemsUpTo(MaxDates)

\* An item without usage that has an attribute of its own.
ItemNoUsageDataType ==
    <<Entry("Item", Str(<<"I">>)), Entry("Platform", Str(<<"P">>)),
      Entry("Data_Type", Str(<<"B">>)), Entry("Performance", Perf0)>>
ZeroUsageItems == <<ItemNoUsageDataType>>
\* the items whose Performance is an empty list: ItemNoUsage and the above
ZeroUsageItemIds ==
    {2} \cup ((Len(ItemCatalog) + ISSNItemCount + AuthorItemCount + 1)..
                (Len(ItemCatalog) + ISSNItemCount + AuthorItemCount + Len(ZeroUsageItems)))

\* every item a document can hold, by id
FullCatalog ==
    ItemCatalog \o ISSNItems \o AuthorItems \o ZeroUsageItems \o PublisherIDItems
        \o DateItems
PublisherIDItemIds ==
    (Len(FullCatalog) - Len(DateItems) - Len(PublisherIDItems) + 1)..
        (Len(FullCatalog) - Len(DateItems))
DateItemIds == (Len(FullCatalog) - Len(DateItems) + 1)..Len(FullCatalog)

RECURSIVE SeqsUpTo(_, _)
\* the sequences over S of length at most n
SeqsUpTo(S, n) ==
    IF n = 0 THEN {<<>>}
    ELSE LET shorter == SeqsUpTo(S, n - 1)
         IN  shorter \cup {Append(q, x) : q \in shorter, x \in S}

\* A document: its header's creation timestamp and its items (as catalog ids).
Documents ==
    [Created : {CREATED_OK, CREATED_BAD}, Report_Items : SeqsUpTo(ItemIds, MaxItems)]
\* the documents of one item with a Publisher_ID list
PublisherIDDocuments ==
    [Created : {CREATED_OK}, Report_Items : {<<id>> : id \in PublisherIDItemIds}]
\* the documents of one item with an Item_Dates list
DateDocuments == [Created : {CREATED_OK}, Report_Items : {<<id>> : id \in DateItemIds}]
\* the documents of one item with a list of authors
AuthorDocuments == [Created : {CREATED_OK}, Report_Items : {<<id>> : id \in AuthorItemIds}]
\* the documents of one item with an ISSN
ISSNDocuments == [Created : {CREATED_OK}, Report_Items : {<<id>> : id \in ISSNItemIds}]

\* the number of (period, instance) pairs of an item's Performance payload
RECURSIVE PairCount(_, _)
PairCount(perf, k) ==
    IF k > Len(perf) THEN 0 ELSE Len(perf[k].Instance) + PairCount(perf, k + 1)

\* ================================================================== state
VARIABLES
    \* --- ConvertJSONDictToDataframe.create_dataframe
    SUSHI_JSON_dictionary,   \* the document being converted
    c_pc,                    \* where create_dataframe is
    item_idx,                \* the position of `record` in Report_Items
    key_idx,                 \* the position of `key` in record.items()
    period_idx,              \* the position of `period_grouping` in performance
    report_header_creation_date,
    include_in_df_dtypes,    \* its entries that are not False
    record_dict,
    performance,             \* record_dict.pop('temp')
    records_orient_list,
    origin,                  \* history: the item each appended record came from
    error_log,               \* the logging.error messages
    c_result                 \* what create_dataframe gave back

codecVars ==
    <<SUSHI_JSON_dictionary, c_pc, item_idx, key_idx, period_idx,
      report_header_creation_date, include_in_df_dtypes, record_dict, performance,
      records_orient_list, origin, error_log, c_result>>


\* ------------------------------------------------------------------ codec
Items == SUSHI_JSON_dictionary.Report_Items
CurrentItem == FullCatalog[Items[item_idx]]

NoResult == [kind |-> "none"]
\* `return df` / `return pd.DataFrame()` / an exception
Returned(rows) == [kind |-> "ok", df |-> rows]
Aborted == [kind |-> "abort", df |-> <<>>]
Raised(exc) == [kind |-> "raise", exc |-> exc]

\* FreshRecord with the dictionary of the item before kept
FreshRecord_KeepsPrevious(previous, date) == Put(previous, "report_creation_date", date)
\* line 103: record_dict = {"report_creation_date": ...}, a dictionary of the
\* item's own
FreshRecord(previous, date) == [k \in {"report_creation_date"} |-> date]

\* create_dataframe is about to run on one of the documents
CodecStart(documents) ==
    /\ SUSHI_JSON_dictionary \in documents
    /\ c_pc = "start"
    /\ item_idx = 0
    /\ key_idx = 0
    /\ period_idx = 0
    /\ report_header_creation_date = None
    /\ include_in_df_dtypes = <<>>
    /\ record_dict = <<>>
    /\ performance = <<>>
    /\ records_orient_list = <<>>
    /\ origin = <<>>
    /\ error_log = <<>>
    /\ c_result = NoResult
CodecInit == CodecStart(Documents)

\* the method is left: by a return or by an exception
Leave(result) ==
    /\ c_pc' = "done"
    /\ c_result' = result

\* records_orient_list = []; parse the header's creation date; set up the flags
ParseHeader ==
    /\ c_pc = "start"
    /\ IF IsISOTimestamp(SUSHI_JSON_dictionary.Created)
       THEN /\ report_header_creation_date' = IsoparseDate(SUSHI_JSON_dictionary.Created)
            /\ c_pc' = "item"
            /\ item_idx' = 1
            /\ UNCHANGED c_result
       ELSE /\ Leave(Raised("ValueError"))
            /\ UNCHANGED <<report_header_creation_date, item_idx>>
    /\ UNCHANGED <<SUSHI_JSON_dictionary, key_idx, period_idx, include_in_df_dtypes,
                   record_dict, performance, records_orient_list, origin, error_log>>

\* `for record in Report_Items`: the next record, with record_dict reset
BeginItem ==
    /\ c_pc = "item"
    /\ item_idx <= Len(Items)
    /\ record_dict' = FreshRecord(record_dict, report_header_creation_date)
    /\ key_idx' = 1
    /\ c_pc' = "keys"
    /\ UNCHANGED <<SUSHI_JSON_dictionary, item_idx, period_idx,
                   report_header_creation_date, include_in_df_dtypes, performance,
                   records_orient_list, origin, error_log, c_result>>

\* `for key, value in record.items()`: one key
VisitKeyStep ==
    /\ c_pc = "keys"
    /\ key_idx <= Len(CurrentItem)
    /\ LET s == VisitKey([rd |-> record_dict, inc |-> include_in_df_dtypes, st |-> "ok",
                          log |-> error_log, exc |-> "none"],
                         CurrentItem[key_idx].key, CurrentItem[key_idx].value)
       IN  /\ record_dict' = s.rd
           /\ include_in_df_dtypes' = s.inc
           /\ error_log' = s.log
           /\ CASE s.st = "ok" -> /\ key_idx' = key_idx + 1
                                  /\ UNCHANGED <<c_pc, c_result>>
                [] s.st = "abort" -> /\ Leave(Aborted)
                                     /\ UNCHANGED key_idx
                [] s.st = "raise" -> /\ Leave(Raised(s.exc))
                                     /\ UNCHANGED key_idx
    /\ UNCHANGED <<SUSHI_JSON_dictionary, item_idx, period_idx,
                   report_header_creation_date, performance, records_orient_list,
                   origin>>

\* performance = record_dict.pop('temp'): KeyError for an item without Performance
PopPerformance ==
    /\ c_pc = "keys"
    /\ key_idx > Len(CurrentItem)
    /\ IF Has(record_dict, "temp")
       THEN /\ performance' = record_dict["temp"].l
            /\ record_dict' = Drop(record_dict, "temp")
            /\ period_idx' = 1
            /\ c_pc' = "fanout"
            /\ UNCHANGED c_result
       ELSE /\ Leave(Raised("KeyError"))
            /\ UNCHANGED <<performance, record_dict, period_idx>>
    /\ UNCHANGED <<SUSHI_JSON_dictionary, item_idx, key_idx,
                   report_header_creation_date, include_in_df_dtypes,
                   records_orient_list, origin, error_log>>

\* `for period_grouping in performance`: one period, with all of its instances
FanOutPeriod ==
    /\ c_pc = "fanout"
    /\ period_idx <= Len(performance)
    /\ LET pg == performance[period_idx] IN
       IF IsISODate(pg.Period.Begin_Date)
       THEN LET r == InstanceLoop(Put(record_dict, "usage_date",
                                      FromISOFormat(pg.Period.Begin_Date)),
                                  records_orient_list, pg.Instance, 1)
            IN  /\ record_dict' = r.rd
                /\ records_orient_list' = r.list
                /\ origin' = origin \o [k \in 1..Len(pg.Instance) |-> item_idx]
                /\ period_idx' = period_idx + 1
                /\ UNCHANGED <<c_pc, c_result>>
       ELSE /\ Leave(Raised("ValueError"))
            /\ UNCHANGED <<record_dict, records_orient_list, origin, period_idx>>
    /\ UNCHANGED <<SUSHI_JSON_dictionary, item_idx, key_idx,
                   report_header_creation_date, include_in_df_dtypes, performance,
                   error_log>>

\* the end of the loop body: on to the next record
EndItem ==
    /\ c_pc = "fanout"
    /\ period_idx > Len(performance)
    /\ item_idx' = item_idx + 1
    /\ c_pc' = "item"
    /\ UNCHANGED <<SUSHI_JSON_dictionary, key_idx, period_idx,
                   report_header_creation_date, include_in_df_dtypes, record_dict,
                   performance, records_orient_list, origin, error_log, c_result>>

\* the section "Create Dataframe"
CreateDataframe ==
    /\ c_pc = "item"
    /\ item_idx > Len(Items)
    /\ IF FrameBuilds(records_orient_list, include_in_df_dtypes)
       THEN Leave(Returned(FrameRows(records_orient_list)))
       ELSE Leave(Raised("KeyError"))
    /\ UNCHANGED <<SUSHI_JSON_dictionary, item_idx, key_idx, period_idx,
                   report_header_creation_date, include_in_df_dtypes, record_dict,
                   performance, records_orient_list, origin, error_log>>

\* ------------------------------------------- one conversion after the other
MaxConversions == 3
\* the longest document that is converted more than once
MaxRepeatItems == 2

\* the documents converted between two conversions of the same document
OtherDocuments ==
    { [Created |-> CREATED_OK, Report_Items |-> <<1>>],
      [Created |-> CREATED_OK, Report_Items |-> <<3>>],
      [Created |-> CREATED_BAD, Report_Items |-> <<>>] }

VARIABLES
    conversions              \* history: the document and result of each ended call

repeatVars == <<conversions>>

\* line 65 with the list of the call before kept
FreshRecordsList_KeepsPrevious(previous) == previous
\* line 65: records_orient_list = [], a list of the call's own
FreshRecordsList(previous) == <<>>

\* ConvertJSONDictToDataframe(document).create_dataframe() once more: a new
\* instance (lines 45-54) and new locals (lines 64-99)
ConvertNext(documents) ==
    /\ c_pc = "done"
    /\ Len(conversions) < MaxConversions - 1
    /\ conversions' = Append(conversions,
                             [document |-> SUSHI_JSON_dictionary, result |-> c_result])
    /\ SUSHI_JSON_dictionary' \in documents
    /\ c_pc' = "start"
    /\ item_idx' = 0
    /\ key_idx' = 0
    /\ period_idx' = 0
    /\ report_header_creation_date' = None
    /\ include_in_df_dtypes' = <<>>
    /\ record_dict' = <<>>
    /\ performance' = <<>>
    /\ records_orient_list' = FreshRecordsList(records_orient_list)
    /\ origin' = FreshRecordsList(origin)
    /\ error_log' = <<>>
    /\ c_result' = NoResult

\* the next document is the same one, one converted earlier, or another one
ConvertAgain ==
    ConvertNext(OtherDocuments \cup {SUSHI_JSON_dictionary}
                   \cup {conversions[k].document : k \in 1..Len(conversions)})

\* the documents whose items produce records, of up to MaxBaseItems items
MaxBaseItems == 2
BaseDocuments == [Created : {CREATED_OK}, Report_Items : SeqsUpTo({1, 4}, MaxBaseItems)]
\* items with id put in after the first k of them
InsertAt(items, k, id) == SubSeq(items, 1, k) \o <<id>> \o SubSeq(items, k + 1, Len(items))
\* the next document is this one with an item without usage put in somewhere
ConvertWithZeroUsageItem ==
    ConvertNext({[SUSHI_JSON_dictionary EXCEPT !.Report_Items = InsertAt(@, k, id)] :
                    k \in 0..Len(Items), id \in ZeroUsageItemIds})

\* ================================ check_if_data_already_in_COUNTERData
MaxBatch == 3
MaxRuns == 2

\* A row of the COUNTERData relation / of the dataframe to be loaded; the
\* metric stands for the columns that are not part of the checked combination.
UsageRow(source, report, date, metric) ==
    [statistics_source_ID |-> source, report_type |-> report, usage_date |-> date,
     metric_type |-> metric]
RowCatalog ==
    { UsageRow(7, "TR", DateV(2023, 1, 1), "Total_Item_Requests"),
      UsageRow(7, "TR", DateV(2023, 1, 1), "Unique_Item_Requests"),
      UsageRow(7, "TR", DateV(2023, 2, 1), "Total_Item_Requests"),
      UsageRow(8, "TR", DateV(2023, 2, 1), "Total_Item_Requests") }
\* the rows the relation may hold before the first run: one per combination
RowsAtStart ==
    << UsageRow(7, "TR", DateV(2023, 1, 1), "Total_Item_Investigations"),
       UsageRow(7, "TR", DateV(2023, 2, 1), "Total_Item_Investigations"),
       UsageRow(8, "TR", DateV(2023, 1, 1), "Total_Item_Investigations"),
       UsageRow(8, "TR", DateV(2023, 2, 1), "Total_Item_Investigations") >>
RECURSIVE SubSequences(_, _)
SubSequences(rows, k) ==
    IF k > Len(rows) THEN {<<>>}
    ELSE LET rest == SubSequences(rows, k + 1)
         IN  rest \cup {<<rows[k]>> \o r : r \in rest}
\* the statisticsSources relation: statistics_source_ID -> statistics_source_name
statisticsSources == (7 :> "ProQuest") @@ (8 :> "EBSCOhost")
\* the errors pd.read_sql / DataFrame.to_sql can raise
StorageErrors == {"OperationalError"}

\* A dataframe: its rows in order, each under its index label. A dataframe
\* built without an index has the labels 0, 1, 2, ...
RangeIndexed(rows) == [k \in 1..Len(rows) |-> [index |-> k - 1, row |-> rows[k]]]
Batches == {RangeIndexed(rows) : rows \in SeqsUpTo(RowCatalog, MaxBatch)}
Column(frame, name) == {frame[k].row[name] : k \in 1..Len(frame)}
\* list(set(...)): the distinct values in an order the interpreter decides
ListsOfSet(S) ==
    {l \in [1..Cardinality(S) -> S] : \A a, b \in 1..Cardinality(S) : l[a] = l[b] => a = b}
\* tuple(product(sources, reports, dates)): the last list varies fastest
Product(sources, reports, dates) ==
    [k \in 1..(Len(sources) * Len(reports) * Len(dates)) |->
        [statistics_source_ID |-> sources[((k - 1) \div (Len(reports) * Len(dates))) + 1],
         report_type |-> reports[(((k - 1) \div Len(dates)) % Len(reports)) + 1],
         usage_date |-> dates[((k - 1) % Len(dates)) + 1]]]

\* SELECT COUNT(*) FROM COUNTERData WHERE statistics_source_ID=.. AND
\* report_type='..' AND usage_date='<strftime %Y-%m-%d>'
CountQuery(relation, combo) ==
    Cardinality({k \in 1..Len(relation) :
        /\ relation[k].statistics_source_ID = combo.statistics_source_ID
        /\ relation[k].report_type = combo.report_type
        /\ ISOFormat(relation[k].usage_date) = ISOFormat(combo.usage_date)})
\* what query_database returns: the dataframe, or the message of its except
QueryAnswer(value) == [kind |-> "df", value |-> value]
QueryError(error) == [kind |-> "str", error |-> error]
NoAnswer == [kind |-> "none"]
\* database_query_fail_statement(error_message, "return requested value")
database_query_fail_statement(error_message) ==
    [kind |-> "query_fail", value_type |-> "return requested value",
     error |-> error_message.error]
\* the two members of the returned tuple
CheckResult(records, message) == [records_to_load |-> records, message |-> message]
NoFrame == [kind |-> "None"]
Frame(rows) == [kind |-> "df", rows |-> rows]
NoMessage == [kind |-> "None"]
\* QueryFailed going on as if the relation held nothing: the whole dataframe
QueryFailed_ReturnsBatch(frame, response) == CheckResult(Frame(frame), NoMessage)
\* `return (None, database_query_fail_statement(...))`
QueryFailed(frame, response) == CheckResult(NoFrame, database_query_fail_statement(response))

\* df[(df[source]==..) & (df[report]==..) & (df[date]==..)]
RowsOfInstance(frame, instance) ==
    SelectSeq(frame, LAMBDA r :
        /\ r.row.statistics_source_ID = instance.statistics_source_ID
        /\ r.row.report_type = instance.report_type
        /\ r.row.usage_date = instance.usage_date)
\* pd.merge(left, right, how='left', indicator=True)['_merge']: the rows of
\* left in order, each once per row of right equal to it in every column
\* ("both") or once if there is none ("left_only"); labelled 0, 1, 2, ...
RECURSIVE MergeIndicator(_, _, _)
MergeIndicator(left, right, k) ==
    IF k > Len(left) THEN <<>>
    ELSE LET matches == Cardinality({j \in 1..Len(right) : right[j].row = left[k].row})
         IN  (IF matches = 0 THEN <<"left_only">> ELSE [j \in 1..matches |-> "both"])
                \o MergeIndicator(left, right, k + 1)
\* df[key] with a boolean Series: the key is reindexed to the labels of df
BooleanIndex(frame, key) == SelectSeq(frame, LAMBDA r : key[r.index + 1])
RecordsToKeep(frame, records_to_remove) ==
    LET merged == MergeIndicator(frame, records_to_remove, 1)
    IN  BooleanIndex(frame, [k \in 1..Len(merged) |-> merged[k] = "left_only"])
\* a line of the message: report type | date | name (ID id)
InstanceLine(instance) ==
    [report_type |-> instance.report_type,
     usage_date |-> ISOFormat(instance.usage_date),
     statistics_source_name |-> instance.statistics_source_name,
     statistics_source_ID |-> instance.statistics_source_ID]
AlreadyLoadedMessage(instances) ==
    [kind |-> "already_in_database",
     lines |-> [k \in 1..Len(instances) |-> InstanceLine(instances[k])]]

VARIABLES
    \* --- check_if_data_already_in_COUNTERData, load_data_into_database
    COUNTERData,             \* the rows of the relation, in insertion order
    df,                      \* the dataframe to be loaded
    d_pc,                    \* where the ingestion run is
    combinations_to_check,
    combo_idx,               \* the position of `combo` in combinations_to_check
    query_response,          \* what the last query_database call returned
    total_number_of_matching_records,
    matching_record_instances,
    instance_idx,            \* the position of `instance` in matching_record_instances
    records_to_remove,       \* the concatenation of the to_remove dataframes
    d_result,                \* the tuple the check returned
    load_response,           \* what load_data_into_database returned
    runs,                    \* the ingestion runs started so far
    loaded_over_stored,      \* history: loads of rows whose combination was stored
    d_other                  \* the dataframe and the locals of the other worker

dedupVars ==
    <<COUNTERData, df, d_pc, combinations_to_check, combo_idx, query_response,
      total_number_of_matching_records, matching_record_instances, instance_idx,
      records_to_remove, d_result, load_response, runs, loaded_over_stored, d_other>>

Combination(row) ==
    [statistics_source_ID |-> row.statistics_source_ID, report_type |-> row.report_type,
     usage_date |-> row.usage_date]

\* the dataframe and the locals of one ingestion run
CheckLocals(frame, pc, combos, c_idx, response, total, instances, i_idx, removed, result, loaded) ==
    [df |-> frame, d_pc |-> pc, combinations_to_check |-> combos, combo_idx |-> c_idx,
     query_response |-> response, total_number_of_matching_records |-> total,
     matching_record_instances |-> instances, instance_idx |-> i_idx,
     records_to_remove |-> removed, d_result |-> result, load_response |-> loaded]
\* there is no other worker
NoChecker == CheckLocals(<<>>, "idle", <<>>, 0, NoAnswer, 0, <<>>, 0, <<>>, NoAnswer, NoAnswer)

CheckLocalsInit ==
    /\ combinations_to_check = <<>>
    /\ combo_idx = 0
    /\ query_response = NoAnswer
    /\ total_number_of_matching_records = 0
    /\ matching_record_instances = <<>>
    /\ instance_idx = 0
    /\ records_to_remove = <<>>
    /\ d_result = NoAnswer
    /\ load_response = NoAnswer

DedupInit ==
    /\ COUNTERData \in SubSequences(RowsAtStart, 1)
    /\ df \in Batches
    /\ d_pc = "start"
    /\ CheckLocalsInit
    /\ runs = 1
    /\ loaded_over_stored = {}
    /\ d_other = NoChecker

DedupIdle ==
    /\ COUNTERData = <<>>
    /\ df = <<>>
    /\ d_pc = "idle"
    /\ CheckLocalsInit
    /\ runs = 0
    /\ loaded_over_stored = {}
    /\ d_other = NoChecker

ReturnFromCheck(result) ==
    /\ d_pc' = "checked"
    /\ d_result' = result

\* lines 494-515: the distinct sources, report types and dates and their product
StartCheck ==
    /\ d_pc = "start"
    /\ \E sources \in ListsOfSet(Column(df, "statistics_source_ID")),
          reports \in ListsOfSet(Column(df, "report_type")),
          dates \in ListsOfSet(Column(df, "usage_date")) :
            combinations_to_check' = Product(sources, reports, dates)
    /\ combo_idx' = 1
    /\ total_number_of_matching_records' = 0
    /\ matching_record_instances' = <<>>
    /\ d_pc' = "probe"
    /\ UNCHANGED <<d_other, COUNTERData, df, query_response, instance_idx, records_to_remove,
                   d_result, load_response, runs, loaded_over_stored>>

\* lines 516-532: one turn of `for combo in combinations_to_check`
ProbeCombination ==
    /\ d_pc = "probe"
    /\ combo_idx <= Len(combinations_to_check)
    /\ LET combo == combinations_to_check[combo_idx] IN
       \/ \E error \in StorageErrors :
            /\ query_response' = QueryError(error)
            /\ ReturnFromCheck(QueryFailed(df, QueryError(error)))
            /\ UNCHANGED <<combo_idx, total_number_of_matching_records,
                           matching_record_instances>>
       \/ LET number_of_matching_records == CountQuery(COUNTERData, combo) IN
            /\ query_response' = QueryAnswer(number_of_matching_records)
            /\ IF number_of_matching_records > 0
               THEN /\ matching_record_instances' = Append(matching_record_instances, combo)
                    /\ total_number_of_matching_records' =
                          total_number_of_matching_records + number_of_matching_records
               ELSE UNCHANGED <<matching_record_instances, total_number_of_matching_records>>
            /\ combo_idx' = combo_idx + 1
            /\ UNCHANGED <<d_pc, d_result>>
    /\ UNCHANGED <<d_other, COUNTERData, df, combinations_to_check, instance_idx, records_to_remove,
                   load_response, runs, loaded_over_stored>>

\* lines 535-537 and 570-571: after the loop over the combinations
AfterProbes ==
    /\ d_pc = "probe"
    /\ combo_idx > Len(combinations_to_check)
    /\ IF total_number_of_matching_records > 0
       THEN /\ records_to_remove' = <<>>
            /\ instance_idx' = 1
            /\ d_pc' = "names"
            /\ UNCHANGED d_result
       ELSE /\ ReturnFromCheck(CheckResult(Frame(df), NoMessage))
            /\ UNCHANGED <<records_to_remove, instance_idx>>
    /\ UNCHANGED <<d_other, COUNTERData, df, combinations_to_check, combo_idx, query_response,
                   total_number_of_matching_records, matching_record_instances,
                   load_response, runs, loaded_over_stored>>

\* lines 538-552: one turn of `for instance in matching_record_instances`. The
\* source of a stored row is in statisticsSources (foreign key), so a query
\* that succeeds has a first row.
LookUpSourceName ==
    /\ d_pc = "names"
    /\ instance_idx <= Len(matching_record_instances)
    /\ LET instance == matching_record_instances[instance_idx] IN
       /\ records_to_remove' = records_to_remove \o RowsOfInstance(df, instance)
       /\ \/ \E error \in StorageErrors :
               /\ query_response' = QueryError(error)
               /\ ReturnFromCheck(QueryFailed(df, QueryError(error)))
               /\ UNCHANGED <<matching_record_instances, instance_idx>>
          \/ /\ query_response' = QueryAnswer(statisticsSources[instance.statistics_source_ID])
             /\ matching_record_instances' =
                   [matching_record_instances EXCEPT ![instance_idx] =
                       [statistics_source_ID |-> instance.statistics_source_ID,
                        report_type |-> instance.report_type,
                        usage_date |-> instance.usage_date,
                        statistics_source_name |->
                            statisticsSources[instance.statistics_source_ID]]]
             /\ instance_idx' = instance_idx + 1
             /\ UNCHANGED <<d_pc, d_result>>
    /\ UNCHANGED <<d_other, COUNTERData, df, combinations_to_check, combo_idx,
                   total_number_of_matching_records, load_response, runs,
                   loaded_over_stored>>

\* lines 555-569: the records to keep and the message
ReturnResults ==
    /\ d_pc = "names"
    /\ instance_idx > Len(matching_record_instances)
    /\ ReturnFromCheck(CheckResult(Frame(RecordsToKeep(df, records_to_remove)),
                                   AlreadyLoadedMessage(matching_record_instances)))
    /\ UNCHANGED <<d_other, COUNTERData, df, combinations_to_check, combo_idx, query_response,
                   total_number_of_matching_records, matching_record_instances,
                   instance_idx, records_to_remove, load_response, runs,
                   loaded_over_stored>>

\* LoadRecords leaving out the rows whose combination the relation holds
LoadRecords_SkipsStored ==
    /\ d_pc = "checked"
    /\ d_result.records_to_load.kind = "df"
    /\ LET rows == [k \in 1..Len(d_result.records_to_load.rows) |->
                        d_result.records_to_load.rows[k].row] IN
       \/ /\ COUNTERData' = COUNTERData \o SelectSeq(rows, LAMBDA r : CountQuery(COUNTERData, r) = 0)
          /\ load_response' = [kind |-> "loaded", records |-> Len(rows)]
          /\ loaded_over_stored' = loaded_over_stored \cup
                {Combination(rows[k]) : k \in {j \in 1..Len(rows) :
                                                 CountQuery(COUNTERData, rows[j]) > 0}}
       \/ \E error \in StorageErrors :
            /\ load_response' = [kind |-> "error", error |-> error]
            /\ UNCHANGED <<COUNTERData, loaded_over_stored>>
    /\ d_pc' = "loaded"
    /\ UNCHANGED <<d_other, df, combinations_to_check, combo_idx, query_response,
                   total_number_of_matching_records, matching_record_instances,
                   instance_idx, records_to_remove, d_result, runs>>
\* load_data_into_database(records_to_load, 'COUNTERData', ...), lines 430-445
LoadRecords ==
    /\ d_pc = "checked"
    /\ d_result.records_to_load.kind = "df"
    /\ LET rows == [k \in 1..Len(d_result.records_to_load.rows) |->
                        d_result.records_to_load.rows[k].row] IN
       \/ /\ COUNTERData' = COUNTERData \o rows
          /\ load_response' = [kind |-> "loaded", records |-> Len(rows)]
          /\ loaded_over_stored' = loaded_over_stored \cup
                {Combination(rows[k]) : k \in {j \in 1..Len(rows) :
                                                 CountQuery(COUNTERData, rows[j]) > 0}}
       \/ \E error \in StorageErrors :
            /\ load_response' = [kind |-> "error", error |-> error]
            /\ UNCHANGED <<COUNTERData, loaded_over_stored>>
    /\ d_pc' = "loaded"
    /\ UNCHANGED <<d_other, df, combinations_to_check, combo_idx, query_response,
                   total_number_of_matching_records, matching_record_instances,
                   instance_idx, records_to_remove, d_result, runs>>

\* the same dataframe is submitted again, after the run before it has ended
Resubmit ==
    /\ \/ d_pc = "loaded"
       \/ d_pc = "checked" /\ d_result.records_to_load.kind = "None"
    /\ runs < MaxRuns
    /\ runs' = runs + 1
    /\ d_pc' = "start"
    /\ combinations_to_check' = <<>>
    /\ combo_idx' = 0
    /\ query_response' = NoAnswer
    /\ total_number_of_matching_records' = 0
    /\ matching_record_instances' = <<>>
    /\ instance_idx' = 0
    /\ records_to_remove' = <<>>
    /\ d_result' = NoAnswer
    /\ load_response' = NoAnswer
    /\ UNCHANGED <<d_other, COUNTERData, df, loaded_over_stored>>

\* ------------------------------------------------------ two workers at once
MaxConcurrentBatch == 1
ConcurrentBatches ==
    {RangeIndexed(rows) : rows \in SeqsUpTo(RowCatalog, MaxConcurrentBatch) \ {<<>>}}
\* two workers are about to check and load a dataframe each; the relation
\* holds no row or one
DedupInitTwo ==
    /\ COUNTERData \in {<<>>, <<RowsAtStart[1]>>, <<RowsAtStart[2]>>}
    /\ df \in ConcurrentBatches
    /\ d_pc = "start"
    /\ CheckLocalsInit
    /\ runs = 1
    /\ loaded_over_stored = {}
    /\ \E frame \in ConcurrentBatches :
          d_other = CheckLocals(frame, "start", <<>>, 0, NoAnswer, 0, <<>>, 0, <<>>,
                                NoAnswer, NoAnswer)

\* the other worker runs on: each run has its own dataframe and locals, and
\* both read and write the same COUNTERData relation
SwitchDedupWorker ==
    /\ d_other.d_pc # "idle"
    /\ d_other' = CheckLocals(df, d_pc, combinations_to_check, combo_idx, query_response,
                              total_number_of_matching_records, matching_record_instances,
                              instance_idx, records_to_remove, d_result, load_response)
    /\ df' = d_other.df
    /\ d_pc' = d_other.d_pc
    /\ combinations_to_check' = d_other.combinations_to_check
    /\ combo_idx' = d_other.combo_idx
    /\ query_response' = d_other.query_response
    /\ total_number_of_matching_records' = d_other.total_number_of_matching_records
    /\ matching_record_instances' = d_other.matching_record_instances
    /\ instance_idx' = d_other.instance_idx
    /\ records_to_remove' = d_other.records_to_remove
    /\ d_result' = d_other.d_result
    /\ load_response' = d_other.load_response
    /\ UNCHANGED <<COUNTERData, runs, loaded_over_stored>>

\* ================================================== first_new_PK_value
MaxKey == 3

\* the relations the function has a branch for, with their primary key fields
PKFields ==
    [fiscalYears |-> "fiscal_year_ID",
     vendors |-> "vendor_ID",
     vendorNotes |-> "vendor_notes_ID",
     statisticsSources |-> "statistics_source_ID",
     statisticsSourceNotes |-> "statistics_source_notes_ID",
     resourceSources |-> "resource_source_ID",
     resourceSourceNotes |-> "resource_source_notes_ID",
     COUNTERData |-> "COUNTER_data_ID"]
\* the relation names the function can be given: the eight, and a relation of
\* the database that has no branch
RelationNames == (DOMAIN PKFields) \cup {"annualUsageCollectionTracking"}
\* SELECT <PK_field> FROM <relation> ORDER BY <PK_field> DESC LIMIT 1
LargestPKQuery(keys) ==
    IF keys = {} THEN <<>> ELSE <<CHOOSE k \in keys : \A j \in keys : j <= k>>
\* what the function returns
IntResult(n) == [kind |-> "int", value |-> n]
StrResult(message) == [kind |-> "str", message |-> message]
\* NewPKValue without the increment
NewPKValue_ReturnsLargest(rows) == IF rows = <<>> THEN 0 ELSE rows[1]
\* lines 268-274: 0 for an empty answer, else int(largest_PK_value.iloc[0][0]) + 1
NewPKValue(rows) == IF rows = <<>> THEN 0 ELSE rows[1] + 1

VARIABLES
    \* --- first_new_PK_value
    relation,                \* the argument
    PK_values,               \* the primary key values the relation holds
    k_pc,                    \* where first_new_PK_value is
    PK_field,
    largest_PK_value,        \* what query_database returned
    k_queries,               \* history: the queries handed to query_database
    k_result,                \* what first_new_PK_value gave back
    k_index,                 \* the index given to the dataframe to be loaded
    k_load,                  \* what load_data_into_database returned
    k_other                  \* the locals of the other worker

keyVars ==
    <<relation, PK_values, k_pc, PK_field, largest_PK_value, k_queries, k_result, k_index,
      k_load, k_other>>

\* the locals of one worker that keys and loads a dataframe
KeyLocals(pc, field, largest, result, index, loaded) ==
    [k_pc |-> pc, PK_field |-> field, largest_PK_value |-> largest, k_result |-> result,
     k_index |-> index, k_load |-> loaded]
\* there is no other worker
NoKeyWorker == KeyLocals("idle", None, NoAnswer, NoResult, <<>>, NoAnswer)

KeyInit ==
    /\ relation \in RelationNames
    /\ PK_values \in SUBSET (0..MaxKey)
    /\ k_pc = "start"
    /\ PK_field = None
    /\ largest_PK_value = NoAnswer
    /\ k_queries = <<>>
    /\ k_result = NoResult
    /\ k_index = <<>>
    /\ k_load = NoAnswer
    /\ k_other = NoKeyWorker

KeyIdle ==
    /\ relation = "COUNTERData"
    /\ PK_values = {}
    /\ k_pc = "idle"
    /\ PK_field = None
    /\ largest_PK_value = NoAnswer
    /\ k_queries = <<>>
    /\ k_result = NoResult
    /\ k_index = <<>>
    /\ k_load = NoAnswer
    /\ k_other = NoKeyWorker

\* lines 240-255: the if/elif chain has no else, so for any other relation
\* PK_field is unbound when line 259 reads it
SelectPKField ==
    /\ k_pc = "start"
    /\ IF relation \in DOMAIN PKFields
       THEN /\ PK_field' = Str(PKFields[relation])
            /\ k_pc' = "query"
            /\ UNCHANGED k_result
       ELSE /\ k_result' = Raised("UnboundLocalError")
            /\ k_pc' = "done"
            /\ UNCHANGED PK_field
    /\ UNCHANGED <<relation, PK_values, largest_PK_value, k_queries, k_index, k_load, k_other>>

\* lines 257-264: the query, answered or failed
QueryLargestPK ==
    /\ k_pc = "query"
    /\ \/ largest_PK_value' = QueryAnswer(LargestPKQuery(PK_values))
       \/ \E error \in StorageErrors : largest_PK_value' = QueryError(error)
    /\ k_queries' = Append(k_queries, [select |-> PK_field.s, from |-> relation])
    /\ k_pc' = "answered"
    /\ UNCHANGED <<relation, PK_values, PK_field, k_result, k_index, k_load, k_other>>

\* lines 265-274
ReturnNewPKValue ==
    /\ k_pc = "answered"
    /\ k_result' = IF largest_PK_value.kind = "str"
                   THEN StrResult(largest_PK_value)
                   ELSE IntResult(NewPKValue(largest_PK_value.value))
    /\ k_pc' = "done"
    /\ UNCHANGED <<relation, PK_values, PK_field, largest_PK_value, k_queries, k_index,
                   k_load, k_other>>

\* ------------------------------------------------------ two workers at once
MaxInsert == 2
\* the contiguous range of keys that starts at the returned value
KeyRange(first, records) == [i \in 1..records |-> first + i - 1]
\* the keys of an index
KeysOf(index) == {index[i] : i \in 1..Len(index)}
\* two workers are about to key and load a dataframe each into one of the
\* relations the function has a branch for
KeyInitTwo ==
    /\ relation \in DOMAIN PKFields
    /\ PK_values \in SUBSET (0..MaxKey)
    /\ k_pc = "start"
    /\ PK_field = None
    /\ largest_PK_value = NoAnswer
    /\ k_queries = <<>>
    /\ k_result = NoResult
    /\ k_index = <<>>
    /\ k_load = NoAnswer
    /\ k_other = KeyLocals("start", None, NoAnswer, NoResult, <<>>, NoAnswer)

\* the dataframe to be loaded gets the range that starts at the value
\* first_new_PK_value returned as its index
AssignIndex ==
    /\ k_pc = "done"
    /\ k_result.kind = "int"
    /\ \E records \in 1..MaxInsert : k_index' = KeyRange(k_result.value, records)
    /\ k_pc' = "keyed"
    /\ UNCHANGED <<relation, PK_values, PK_field, largest_PK_value, k_queries, k_result,
                   k_load, k_other>>

\* load_data_into_database(df, relation, engine, index_field_name), lines
\* 430-445: one INSERT of all the records (chunksize 1000), which the relation
\* refuses as a whole when one of the keys is a primary key it holds
InsertBatch ==
    /\ k_pc = "keyed"
    /\ \/ IF KeysOf(k_index) \cap PK_values = {}
          THEN /\ PK_values' = PK_values \cup KeysOf(k_index)
               /\ k_load' = [kind |-> "loaded", records |-> Len(k_index)]
          ELSE /\ k_load' = [kind |-> "error", error |-> "IntegrityError"]
               /\ UNCHANGED PK_values
       \/ \E error \in StorageErrors :
            /\ k_load' = [kind |-> "error", error |-> error]
            /\ UNCHANGED PK_values
    /\ k_pc' = "inserted"
    /\ UNCHANGED <<relation, PK_field, largest_PK_value, k_queries, k_result, k_index,
                   k_other>>

\* the other worker runs on: each has its own locals, both read and write the
\* same relation
SwitchKeyWorker ==
    /\ k_other.k_pc # "idle"
    /\ k_other' = KeyLocals(k_pc, PK_field, largest_PK_value, k_result, k_index, k_load)
    /\ k_pc' = k_other.k_pc
    /\ PK_field' = k_other.PK_field
    /\ largest_PK_value' = k_other.largest_PK_value
    /\ k_result' = k_other.k_result
    /\ k_index' = k_other.k_index
    /\ k_load' = k_other.k_load
    /\ UNCHANGED <<relation, PK_values, k_queries>>

\* ======= save_unconverted_data_via_upload and upload_file_to_S3_bucket
PATH_WITHIN_BUCKET == "raw-vendor-reports/"

\* the data to save: a dict json can or cannot serialize, or a string
Payloads ==
    { [type |-> "dict", serializable |-> TRUE, content |-> "report"],
      [type |-> "dict", serializable |-> FALSE, content |-> "report with a date object"],
      [type |-> "str", serializable |-> TRUE, content |-> "response text"] }
FileNameStems == {"7_reports-tr_2023-01_2023-01", "8_reports-pr_2023-02_2023-02", "12_5"}
TempFileNames == {"temp.json", "temp.txt"}
\* what a path of TOP_NOLCAT_DIRECTORY leads to
NoFile == [exists |-> FALSE]
FileWith(content) == [exists |-> TRUE, content |-> content]
EmptyFile == FileWith("")
\* the exceptions head_bucket raises: botocore.exceptions.ClientError (the bucket
\* is missing or access is denied) and exceptions that are no ClientError
ClientErrors == {"ClientError 403", "ClientError 404"}
OtherBotoErrors == {"EndpointConnectionError"}
\* AfterFailedBucketCheck going on to the upload whatever head_bucket raised
AfterFailedBucketCheck_Uploads(error) == "upload_fileobj"
\* lines 347-356: where upload_file_to_S3_bucket goes when head_bucket raised:
\* a ClientError is caught and the message returned, anything else leaves the
\* function (and its caller) as an exception
AfterFailedBucketCheck(error) == IF error \in ClientErrors THEN "unlink" ELSE "done"
\* AfterFailedFileobj trying upload_fileobj() once more
AfterFailedFileobj_TriesAgain == "upload_fileobj"
\* lines 370-372: where upload_file_to_S3_bucket goes when upload_fileobj()
\* raised: the warning is logged and the function goes on to upload_file()
AfterFailedFileobj == "upload_file"
\* the messages upload_file_to_S3_bucket returns
BucketCheckMessage(error) == [kind |-> "bucket check failed", error |-> error]
UploadSuccessMessage(file_name) == [kind |-> "success", file_name |-> file_name]
UploadFileErrorMessage(error) == [kind |-> "upload_file failed", error |-> error]
NotAFileMessage == [kind |-> "not a file"]
\* lines 665-669: the message of a failed upload_file() is the only one that
\* matches the regex
FinalMessage(file_name, logging_message) ==
    IF logging_message.kind = "upload_file failed"
    THEN [kind |-> "upload failed", file_name |-> file_name, because |-> logging_message]
    ELSE logging_message
\* the sentence of nolcat.statements.failed_upload_to_S3_statement that says the
\* data is saved nowhere
NOT_SAVED_NOTICE == "NoLCAT HAS NOT SAVED THIS DATA IN ANY WAY!"
\* the text of a message, as the pieces of its f-string (values between quotes
\* of the f-string are single pieces)
RECURSIVE MessageText(_)
MessageText(message) ==
    CASE message.kind = "bucket check failed" ->
            <<"Unable to upload files to S3 because the check for the S3 bucket designated for downloads raised the error ",
              message.error, ".">>
      [] message.kind = "success" ->
            <<"Successfully loaded the file ">> \o message.file_name
               \o <<" into the ", "BUCKET_NAME", " S3 bucket.">>
      [] message.kind = "upload_file failed" ->
            <<"Running the function upload_file() on ", "temp_file_path",
              " raised the error ", message.error, ".">>
      [] message.kind = "not a file" ->
            <<"Unable to load file ", "temp_file_path",
              " into an S3 bucket because it relied the ability for ", "temp_file_path",
              " to be a file-like or path-like object.">>
      [] message.kind = "upload failed" ->
            <<"Uploading the file ">> \o message.file_name \o <<" to S3 failed because ">>
               \o MessageText(message.because)
      [] message.kind = "writing failed" ->
            <<"Writing data into a binary file raised the error ", message.binary_error,
              "; writing that data into a text file raised the error ",
              message.text_error, ".">>
\* a call of the S3 client
S3Call(name, outcome) == [call |-> name, outcome |-> outcome]

VARIABLES
    \* --- save_unconverted_data_via_upload, upload_file_to_S3_bucket
    data,                    \* the argument
    file_name_stem,          \* the argument
    directory,               \* TOP_NOLCAT_DIRECTORY: file name -> file
    bucket_objects,          \* the bucket: the (key, content) pairs stored
    s3_calls,                \* history: the calls of the S3 client, in order
    u_pc,                    \* where save_unconverted_data_via_upload is
    temp_file_name,
    logging_message,         \* what upload_file_to_S3_bucket returned
    u_result,                \* what save_unconverted_data_via_upload gave back
    u_other                  \* the arguments and locals of the call of another worker

uploadVars ==
    <<data, file_name_stem, directory, bucket_objects, s3_calls, u_pc, temp_file_name,
      logging_message, u_result, u_other>>

\* the arguments and locals of one call
UploadLocals(d, stem, pc, name, message, result) ==
    [data |-> d, file_name_stem |-> stem, u_pc |-> pc, temp_file_name |-> name,
     logging_message |-> message, u_result |-> result]
\* no other worker
NoWorker == UploadLocals([type |-> "str", serializable |-> TRUE, content |-> ""], "", "idle",
                         "", NoAnswer, NoResult)

\* FileName without the suffix of the temporary file
FileName_WithoutSuffix == <<file_name_stem, "">>
\* file_name_stem + temp_file_path.suffix
FileName == <<file_name_stem, IF temp_file_name = "temp.json" THEN ".json" ELSE ".txt">>
\* bucket_path + file_name
ObjectKey == <<PATH_WITHIN_BUCKET>> \o FileName

UploadInit ==
    /\ data \in Payloads
    /\ file_name_stem \in FileNameStems
    /\ directory \in [TempFileNames -> {NoFile, FileWith("left by an earlier call")}]
    /\ bucket_objects = {}
    /\ s3_calls = <<>>
    /\ u_pc = "start"
    /\ temp_file_name = ""
    /\ logging_message = NoAnswer
    /\ u_result = NoResult
    /\ u_other = NoWorker

UploadIdle ==
    /\ data = [type |-> "str", serializable |-> TRUE, content |-> ""]
    /\ file_name_stem = ""
    /\ directory = [n \in TempFileNames |-> NoFile]
    /\ bucket_objects = {}
    /\ s3_calls = <<>>
    /\ u_pc = "idle"
    /\ temp_file_name = ""
    /\ logging_message = NoAnswer
    /\ u_result = NoResult
    /\ u_other = NoWorker

EndCall(result) ==
    /\ u_pc' = "done"
    /\ u_result' = result

\* lines 617-622: the path of the temporary file; unlink(missing_ok=True)
CreateFilePath ==
    /\ u_pc = "start"
    /\ LET name == IF data.type = "dict" THEN "temp.json" ELSE "temp.txt" IN
       /\ temp_file_name' = name
       /\ directory' = [directory EXCEPT ![name] = NoFile]
    /\ u_pc' = "save"
    /\ UNCHANGED <<u_other, data, file_name_stem, bucket_objects, s3_calls, logging_message,
                   u_result>>

\* lines 626-636: open(.., 'wb') creates the file; json.dump into a binary file
\* raises TypeError (it writes str), whatever the data; the handler opens the
\* file as text and writes json.dumps(data), and nothing catches what that raises
SaveJSONFile ==
    /\ u_pc = "save"
    /\ temp_file_name = "temp.json"
    /\ \E binary_open, text_open, text_write \in BOOLEAN :
        LET after_binary == IF binary_open THEN EmptyFile ELSE directory[temp_file_name] IN
        IF ~text_open
        THEN /\ directory' = [directory EXCEPT ![temp_file_name] = after_binary]
             /\ EndCall(Raised("OSError"))
        ELSE IF ~data.serializable
        THEN /\ directory' = [directory EXCEPT ![temp_file_name] = EmptyFile]
             /\ EndCall(Raised("TypeError"))
        ELSE IF ~text_write
        THEN /\ directory' = [directory EXCEPT ![temp_file_name] = EmptyFile]
             /\ EndCall(Raised("OSError"))
        ELSE /\ directory' = [directory EXCEPT ![temp_file_name] = FileWith(data.content)]
             /\ u_pc' = "head_bucket"
             /\ UNCHANGED u_result
    /\ UNCHANGED <<u_other, data, file_name_stem, bucket_objects, s3_calls, temp_file_name,
                   logging_message>>

\* lines 637-652: open(.., 'wb') creates the file; writing a str into a binary
\* file raises TypeError; the handler writes the data as text, and when that
\* fails too the function returns a message
SaveTextFile ==
    /\ u_pc = "save"
    /\ temp_file_name = "temp.txt"
    /\ \E binary_open, text_open, text_write \in BOOLEAN :
        LET after_binary == IF binary_open THEN EmptyFile ELSE directory[temp_file_name] IN
        IF ~text_open
        THEN /\ directory' = [directory EXCEPT ![temp_file_name] = after_binary]
             /\ EndCall(StrResult([kind |-> "writing failed", binary_error |-> "TypeError",
                                   text_error |-> "OSError"]))
        ELSE IF ~text_write
        THEN /\ directory' = [directory EXCEPT ![temp_file_name] = EmptyFile]
             /\ EndCall(StrResult([kind |-> "writing failed", binary_error |-> "TypeError",
                                   text_error |-> "OSError"]))
        ELSE /\ directory' = [directory EXCEPT ![temp_file_name] = FileWith(data.content)]
             /\ u_pc' = "head_bucket"
             /\ UNCHANGED u_result
    /\ UNCHANGED <<u_other, data, file_name_stem, bucket_objects, s3_calls, temp_file_name,
                   logging_message>>

\* lines 347-352: s3_client.head_bucket(Bucket=bucket)
HeadBucket ==
    /\ u_pc = "head_bucket"
    /\ \/ /\ s3_calls' = Append(s3_calls, S3Call("head_bucket", "ok"))
          /\ u_pc' = "upload_fileobj"
          /\ UNCHANGED <<logging_message, u_result>>
       \/ \E error \in ClientErrors \cup OtherBotoErrors :
            /\ s3_calls' = Append(s3_calls, S3Call("head_bucket", error))
            /\ u_pc' = AfterFailedBucketCheck(error)
            /\ IF error \in ClientErrors
               THEN /\ logging_message' = BucketCheckMessage(error)
                    /\ UNCHANGED u_result
               ELSE /\ u_result' = Raised(error)
                    /\ UNCHANGED logging_message
    /\ UNCHANGED <<u_other, data, file_name_stem, directory, bucket_objects, temp_file_name>>

\* lines 358-375: open(file, 'rb') and client.upload_fileobj; when either
\* raises, the function goes on to upload_file()
UploadFileobj ==
    /\ u_pc = "upload_fileobj"
    /\ \E opened, uploaded \in BOOLEAN :
        IF opened /\ directory[temp_file_name].exists
        THEN IF uploaded
             THEN /\ s3_calls' = Append(s3_calls, S3Call("upload_fileobj", "ok"))
                  /\ bucket_objects' =
                        {o \in bucket_objects : o.key # ObjectKey} \cup
                        {[key |-> ObjectKey, content |-> directory[temp_file_name].content]}
                  /\ logging_message' = UploadSuccessMessage(FileName)
                  /\ u_pc' = "unlink"
             ELSE /\ s3_calls' = Append(s3_calls, S3Call("upload_fileobj", "error"))
                  /\ u_pc' = AfterFailedFileobj
                  /\ UNCHANGED <<bucket_objects, logging_message>>
        ELSE /\ u_pc' = "upload_file"
             /\ UNCHANGED <<s3_calls, bucket_objects, logging_message>>
    /\ UNCHANGED <<u_other, data, file_name_stem, directory, temp_file_name, u_result>>

\* lines 378-395: client.upload_file, if the path leads to a file
UploadFile ==
    /\ u_pc = "upload_file"
    /\ IF directory[temp_file_name].exists
       THEN \/ /\ s3_calls' = Append(s3_calls, S3Call("upload_file", "ok"))
               /\ bucket_objects' =
                     {o \in bucket_objects : o.key # ObjectKey} \cup
                     {[key |-> ObjectKey, content |-> directory[temp_file_name].content]}
               /\ logging_message' = UploadSuccessMessage(FileName)
            \/ /\ s3_calls' = Append(s3_calls, S3Call("upload_file", "error"))
               /\ logging_message' = UploadFileErrorMessage("S3UploadFailedError")
               /\ UNCHANGED bucket_objects
       ELSE /\ logging_message' = NotAFileMessage
            /\ UNCHANGED <<s3_calls, bucket_objects>>
    /\ u_pc' = "unlink"
    /\ UNCHANGED <<u_other, data, file_name_stem, directory, temp_file_name, u_result>>

\* lines 662-671: temp_file_path.unlink() (FileNotFoundError if there is no
\* such file), then the message
UnlinkAndReturn ==
    /\ u_pc = "unlink"
    /\ IF directory[temp_file_name].exists
       THEN /\ directory' = [directory EXCEPT ![temp_file_name] = NoFile]
            /\ EndCall(StrResult(FinalMessage(FileName, logging_message)))
       ELSE /\ EndCall(Raised("FileNotFoundError"))
            /\ UNCHANGED directory
    /\ UNCHANGED <<u_other, data, file_name_stem, bucket_objects, s3_calls, temp_file_name,
                   logging_message>>

\* the payloads of two workers: two dicts and a string
ConcurrentPayloads ==
    { [type |-> "dict", serializable |-> TRUE, content |-> "report"],
      [type |-> "dict", serializable |-> TRUE, content |-> "another report"],
      [type |-> "str", serializable |-> TRUE, content |-> "response text"] }
\* two workers are about to call save_unconverted_data_via_upload, with
\* different payloads and different stems
UploadInitTwo ==
    /\ data \in ConcurrentPayloads
    /\ file_name_stem \in FileNameStems
    /\ directory = [n \in TempFileNames |-> NoFile]
    /\ bucket_objects = {}
    /\ s3_calls = <<>>
    /\ u_pc = "start"
    /\ temp_file_name = ""
    /\ logging_message = NoAnswer
    /\ u_result = NoResult
    /\ \E d \in ConcurrentPayloads \ {data}, stem \in FileNameStems \ {file_name_stem} :
          u_other = UploadLocals(d, stem, "start", "", NoAnswer, NoResult)

\* the other worker runs on: the two calls have their own arguments and locals
\* and share the directory of the temporary files and the bucket
SwitchUploadWorker ==
    /\ u_other.u_pc # "idle"
    /\ u_other' = UploadLocals(data, file_name_stem, u_pc, temp_file_name, logging_message,
                               u_result)
    /\ data' = u_other.data
    /\ file_name_stem' = u_other.file_name_stem
    /\ u_pc' = u_other.u_pc
    /\ temp_file_name' = u_other.temp_file_name
    /\ logging_message' = u_other.logging_message
    /\ u_result' = u_other.u_result
    /\ UNCHANGED <<directory, bucket_objects, s3_calls>>

\* =========================================================== specifications
vars == <<codecVars, repeatVars, dedupVars, keyVars, uploadVars>>

CodecIdle ==
    /\ SUSHI_JSON_dictionary = [Created |-> CREATED_OK, Report_Items |-> <<>>]
    /\ c_pc = "idle"
    /\ item_idx = 0
    /\ key_idx = 0
    /\ period_idx = 0
    /\ report_header_creation_date = None
    /\ include_in_df_dtypes = <<>>
    /\ record_dict = <<>>
    /\ performance = <<>>
    /\ records_orient_list = <<>>
    /\ origin = <<>>
    /\ error_log = <<>>
    /\ c_result = NoResult
    /\ conversions = <<>>

\* ConvertJSONDictToDataframe.create_dataframe on one document
Init == CodecInit /\ conversions = <<>> /\ DedupIdle /\ KeyIdle /\ UploadIdle
Next ==
    \/ ParseHeader /\ UNCHANGED <<repeatVars, dedupVars, keyVars, uploadVars>>
    \/ BeginItem /\ UNCHANGED <<repeatVars, dedupVars, keyVars, uploadVars>>
    \/ VisitKeyStep /\ UNCHANGED <<repeatVars, dedupVars, keyVars, uploadVars>>
    \/ PopPerformance /\ UNCHANGED <<repeatVars, dedupVars, keyVars, uploadVars>>
    \/ FanOutPeriod /\ UNCHANGED <<repeatVars, dedupVars, keyVars, uploadVars>>
    \/ EndItem /\ UNCHANGED <<repeatVars, dedupVars, keyVars, uploadVars>>
    \/ CreateDataframe /\ UNCHANGED <<repeatVars, dedupVars, keyVars, uploadVars>>
Spec == Init /\ [][Next]_vars

\* create_dataframe on the documents of one item with an ISSN
InitISSN == CodecStart(ISSNDocuments) /\ conversions = <<>> /\ DedupIdle /\ KeyIdle /\ UploadIdle
SpecISSN == InitISSN /\ [][Next]_vars

\* create_dataframe on the documents of one item with a list of authors
InitAuthors ==
    CodecStart(AuthorDocuments) /\ conversions = <<>> /\ DedupIdle /\ KeyIdle /\ UploadIdle
SpecAuthors == InitAuthors /\ [][Next]_vars

\* create_dataframe on the documents of one item with a Publisher_ID list
InitPublisherID ==
    CodecStart(PublisherIDDocuments) /\ conversions = <<>> /\ DedupIdle /\ KeyIdle /\ UploadIdle
SpecPublisherID == InitPublisherID /\ [][Next]_vars

\* create_dataframe on the documents of one item with an Item_Dates list
InitDates ==
    CodecStart(DateDocuments) /\ conversions = <<>> /\ DedupIdle /\ KeyIdle /\ UploadIdle
SpecDates == InitDates /\ [][Next]_vars

\* conversions one after the other, of the same and of other documents
NextRepeat ==
    \/ ParseHeader /\ UNCHANGED <<repeatVars, dedupVars, keyVars, uploadVars>>
    \/ BeginItem /\ UNCHANGED <<repeatVars, dedupVars, keyVars, uploadVars>>
    \/ VisitKeyStep /\ UNCHANGED <<repeatVars, dedupVars, keyVars, uploadVars>>
    \/ PopPerformance /\ UNCHANGED <<repeatVars, dedupVars, keyVars, uploadVars>>
    \/ FanOutPeriod /\ UNCHANGED <<repeatVars, dedupVars, keyVars, uploadVars>>
    \/ EndItem /\ UNCHANGED <<repeatVars, dedupVars, keyVars, uploadVars>>
    \/ CreateDataframe /\ UNCHANGED <<repeatVars, dedupVars, keyVars, uploadVars>>
    \/ ConvertAgain /\ UNCHANGED <<dedupVars, keyVars, uploadVars>>
InitRepeat == Init /\ Len(SUSHI_JSON_dictionary.Report_Items) <= MaxRepeatItems
SpecRepeat == InitRepeat /\ [][NextRepeat]_vars

\* a document converted, and then again with items without usage put in
NextZeroUsage ==
    \/ ParseHeader /\ UNCHANGED <<repeatVars, dedupVars, keyVars, uploadVars>>
    \/ BeginItem /\ UNCHANGED <<repeatVars, dedupVars, keyVars, uploadVars>>
    \/ VisitKeyStep /\ UNCHANGED <<repeatVars, dedupVars, keyVars, uploadVars>>
    \/ PopPerformance /\ UNCHANGED <<repeatVars, dedupVars, keyVars, uploadVars>>
    \/ FanOutPeriod /\ UNCHANGED <<repeatVars, dedupVars, keyVars, uploadVars>>
    \/ EndItem /\ UNCHANGED <<repeatVars, dedupVars, keyVars, uploadVars>>
    \/ CreateDataframe /\ UNCHANGED <<repeatVars, dedupVars, keyVars, uploadVars>>
    \/ ConvertWithZeroUsageItem /\ UNCHANGED <<dedupVars, keyVars, uploadVars>>
InitZeroUsage ==
    CodecStart(BaseDocuments) /\ conversions = <<>> /\ DedupIdle /\ KeyIdle /\ UploadIdle
SpecZeroUsage == InitZeroUsage /\ [][NextZeroUsage]_vars

\* ingestion runs for one dataframe, one after the other
InitDedup == CodecIdle /\ DedupInit /\ KeyIdle /\ UploadIdle
NextDedup ==
    \/ StartCheck /\ UNCHANGED <<codecVars, repeatVars, keyVars, uploadVars>>
    \/ ProbeCombination /\ UNCHANGED <<codecVars, repeatVars, keyVars, uploadVars>>
    \/ AfterProbes /\ UNCHANGED <<codecVars, repeatVars, keyVars, uploadVars>>
    \/ LookUpSourceName /\ UNCHANGED <<codecVars, repeatVars, keyVars, uploadVars>>
    \/ ReturnResults /\ UNCHANGED <<codecVars, repeatVars, keyVars, uploadVars>>
    \/ LoadRecords /\ UNCHANGED <<codecVars, repeatVars, keyVars, uploadVars>>
    \/ Resubmit /\ UNCHANGED <<codecVars, repeatVars, keyVars, uploadVars>>
SpecDedup == InitDedup /\ [][NextDedup]_vars

\* two workers check and load a dataframe each at the same time
InitDedupTwo == CodecIdle /\ DedupInitTwo /\ KeyIdle /\ UploadIdle
NextDedupTwo ==
    \/ StartCheck /\ UNCHANGED <<codecVars, repeatVars, keyVars, uploadVars>>
    \/ ProbeCombination /\ UNCHANGED <<codecVars, repeatVars, keyVars, uploadVars>>
    \/ AfterProbes /\ UNCHANGED <<codecVars, repeatVars, keyVars, uploadVars>>
    \/ LookUpSourceName /\ UNCHANGED <<codecVars, repeatVars, keyVars, uploadVars>>
    \/ ReturnResults /\ UNCHANGED <<codecVars, repeatVars, keyVars, uploadVars>>
    \/ LoadRecords /\ UNCHANGED <<codecVars, repeatVars, keyVars, uploadVars>>
    \/ SwitchDedupWorker /\ UNCHANGED <<codecVars, repeatVars, keyVars, uploadVars>>
SpecDedupTwo == InitDedupTwo /\ [][NextDedupTwo]_vars

\* one call of first_new_PK_value
InitKey == CodecIdle /\ DedupIdle /\ KeyInit /\ UploadIdle
NextKey ==
    \/ SelectPKField /\ UNCHANGED <<codecVars, repeatVars, dedupVars, uploadVars>>
    \/ QueryLargestPK /\ UNCHANGED <<codecVars, repeatVars, dedupVars, uploadVars>>
    \/ ReturnNewPKValue /\ UNCHANGED <<codecVars, repeatVars, dedupVars, uploadVars>>
SpecKey == InitKey /\ [][NextKey]_vars

\* two workers key and load a dataframe each at the same time
InitKeyTwo == CodecIdle /\ DedupIdle /\ KeyInitTwo /\ UploadIdle
NextKeyTwo ==
    \/ SelectPKField /\ UNCHANGED <<codecVars, repeatVars, dedupVars, uploadVars>>
    \/ QueryLargestPK /\ UNCHANGED <<codecVars, repeatVars, dedupVars, uploadVars>>
    \/ ReturnNewPKValue /\ UNCHANGED <<codecVars, repeatVars, dedupVars, uploadVars>>
    \/ AssignIndex /\ UNCHANGED <<codecVars, repeatVars, dedupVars, uploadVars>>
    \/ InsertBatch /\ UNCHANGED <<codecVars, repeatVars, dedupVars, uploadVars>>
    \/ SwitchKeyWorker /\ UNCHANGED <<codecVars, repeatVars, dedupVars, uploadVars>>
SpecKeyTwo == InitKeyTwo /\ [][NextKeyTwo]_vars

\* one call of save_unconverted_data_via_upload
InitUpload == CodecIdle /\ DedupIdle /\ KeyIdle /\ UploadInit
NextUpload ==
    \/ CreateFilePath /\ UNCHANGED <<codecVars, repeatVars, dedupVars, keyVars>>
    \/ SaveJSONFile /\ UNCHANGED <<codecVars, repeatVars, dedupVars, keyVars>>
    \/ SaveTextFile /\ UNCHANGED <<codecVars, repeatVars, dedupVars, keyVars>>
    \/ HeadBucket /\ UNCHANGED <<codecVars, repeatVars, dedupVars, keyVars>>
    \/ UploadFileobj /\ UNCHANGED <<codecVars, repeatVars, dedupVars, keyVars>>
    \/ UploadFile /\ UNCHANGED <<codecVars, repeatVars, dedupVars, keyVars>>
    \/ UnlinkAndReturn /\ UNCHANGED <<codecVars, repeatVars, dedupVars, keyVars>>
SpecUpload == InitUpload /\ [][NextUpload]_vars

\* two workers call save_unconverted_data_via_upload at the same time
InitUploadTwo == CodecIdle /\ DedupIdle /\ KeyIdle /\ UploadInitTwo
NextUploadTwo ==
    \/ CreateFilePath /\ UNCHANGED <<codecVars, repeatVars, dedupVars, keyVars>>
    \/ SaveJSONFile /\ UNCHANGED <<codecVars, repeatVars, dedupVars, keyVars>>
    \/ SaveTextFile /\ UNCHANGED <<codecVars, repeatVars, dedupVars, keyVars>>
    \/ HeadBucket /\ UNCHANGED <<codecVars, repeatVars, dedupVars, keyVars>>
    \/ UploadFileobj /\ UNCHANGED <<codecVars, repeatVars, dedupVars, keyVars>>
    \/ UploadFile /\ UNCHANGED <<codecVars, repeatVars, dedupVars, keyVars>>
    \/ UnlinkAndReturn /\ UNCHANGED <<codecVars, repeatVars, dedupVars, keyVars>>
    \/ SwitchUploadWorker /\ UNCHANGED <<codecVars, repeatVars, dedupVars, keyVars>>
SpecUploadTwo == InitUploadTwo /\ [][NextUploadTwo]_vars

\* ================================================================== claims
\* the entries of an item (given by its place in the document) under a key
ValuesOf(entries, key) ==
    {entries[k].value : k \in {j \in 1..Len(entries) : entries[j].key = key}}
ItemAt(i) == FullCatalog[SUSHI_JSON_dictionary.Report_Items[i]]
\* k of item i: the (period, instance) pairs of its Performance payload
PairsOfItem(i) ==
    LET perfs == ValuesOf(ItemAt(i), "Performance")
    IN  IF perfs = {} THEN 0 ELSE PairCount((CHOOSE v \in perfs : TRUE).l, 1)
RECURSIVE PairsUpTo(_)
PairsUpTo(i) == IF i = 0 THEN 0 ELSE PairsOfItem(i) + PairsUpTo(i - 1)

PerformanceFields == {"usage_date", "metric_type", "usage_count"}

\* C1: a successful conversion returns, for every item, exactly as many rows as
\* its Performance payload has (period, instance) pairs, the rows of one item
\* agree in every column but usage_date, metric_type and usage_count, and the
\* document yields the sum of the items' pair counts.
C1_OneRowPerPair ==
    c_result.kind = "ok" =>
        /\ Len(c_result.df) = PairsUpTo(Len(Items))
        /\ Len(origin) = Len(c_result.df)
        /\ \A i \in 1..Len(Items) :
              Cardinality({p \in 1..Len(origin) : origin[p] = i}) = PairsOfItem(i)
        /\ \A p, q \in 1..Len(origin) :
              origin[p] = origin[q] =>
                 \A c \in (DOMAIN c_result.df[p]) \ PerformanceFields :
                    c_result.df[p][c] = c_result.df[q][c]

\* C1's case: a two-item document converted to 3 + 1 rows
C1_Witness ==
    /\ c_result.kind = "ok"
    /\ Len(Items) = 2
    /\ PairsOfItem(1) = 3
    /\ PairsOfItem(2) = 1
    /\ Len(c_result.df) = 4

\* whether a list of contributors makes its first author's name the field value
\* and that name is longer than the authors field
FirstAuthorTooLong(l) ==
    \E k \in 1..Len(l) :
        /\ MatchAuthor(l[k].Type)
        /\ \A j \in 1..(k - 1) : ~MatchAuthor(l[j].Type)
        /\ IsStr(l[k].Name) /\ Len(l[k].Name.s) > AUTHORS_LENGTH

IdentifierTooLong(l) ==
    \E k \in 1..Len(l) :
        /\ IsStr(l[k].Value)
        /\ \/ l[k].Type = T_DOI /\ Len(l[k].Value.s) > DOI_LENGTH
           \/ /\ l[k].Type # T_DOI /\ MatchProprietary(l[k].Type)
              /\ Len(l[k].Value.s) > PROPRIETARY_ID_LENGTH
           \/ l[k].Type = T_URI /\ Len(l[k].Value.s) > URI_LENGTH

PublisherIDTooLong(v) ==
    /\ v.t = "list"
    /\ \E k \in 1..Len(v.l) :
          /\ Len(v.l) = 1 \/ MatchProprietary(v.l[k].Type)
          /\ IsStr(v.l[k].Value) /\ Len(v.l[k].Value.s) > PUBLISHER_ID_LENGTH

ScalarTooLong(v, max) == IsStr(v) /\ Len(v.s) > max

\* the entries of a parent: of the dict, or of the dict inside a one-item list
ParentEntries(v) ==
    IF v.t = "dict" THEN v.entries
    ELSE IF Len(v.l) = 1 THEN v.l[1].entries ELSE <<>>

\* whether a value the document gives for a length-guarded field of a parent is
\* longer than the field
ParentTooLong(entries) ==
    \/ \E v \in ValuesOf(entries, "Item_Name") : ScalarTooLong(v, RESOURCE_NAME_LENGTH)
    \/ \E v \in ValuesOf(entries, "Item_Contributors") : FirstAuthorTooLong(v.l)
    \/ \E v \in ValuesOf(entries, "Item_ID") : IdentifierTooLong(v.l)

\* whether a value the document gives for a length-guarded field of an item, or
\* of its parent, is longer than the field
ItemTooLong(entries) ==
    \/ \E key \in {"Database", "Title", "Item"} :
          \E v \in ValuesOf(entries, key) : ScalarTooLong(v, RESOURCE_NAME_LENGTH)
    \/ \E v \in ValuesOf(entries, "Publisher") : ScalarTooLong(v, PUBLISHER_LENGTH)
    \/ \E v \in ValuesOf(entries, "Publisher_ID") : PublisherIDTooLong(v)
    \/ \E v \in ValuesOf(entries, "Platform") : ScalarTooLong(v, PLATFORM_LENGTH)
    \/ \E v \in ValuesOf(entries, "Item_Contributors") : FirstAuthorTooLong(v.l)
    \/ \E v \in ValuesOf(entries, "Item_ID") : IdentifierTooLong(v.l)
    \/ \E v \in ValuesOf(entries, "Item_Parent") : ParentTooLong(ParentEntries(v))

\* C2: when an item of the document holds an over-long value of a guarded
\* field, no item after it is ever processed and the finished conversion hands
\* back no records: not those of earlier items either.
C2_TooLongEndsDocument ==
    \A i \in 1..Len(Items) :
        ItemTooLong(ItemAt(i)) =>
            /\ item_idx <= i
            /\ c_pc = "done" => /\ c_result.kind \in {"abort", "raise"}
                                /\ c_result.kind = "abort" => c_result.df = <<>>

\* C2's case: the middle item of three aborts after the first one's records
\* were built, and the third is never reached
C2_Witness ==
    /\ c_pc = "done"
    /\ c_result = Aborted
    /\ Len(Items) = 3
    /\ item_idx = 2
    /\ ItemTooLong(ItemAt(2))
    /\ Len(records_orient_list) = 3

\* the declared maximum of each length-guarded column
MaxLengthOf ==
    [f \in {"resource_name", "parent_title", "publisher", "publisher_ID", "platform",
            "authors", "parent_authors", "DOI", "parent_DOI", "proprietary_ID",
            "parent_proprietary_ID", "URI", "parent_URI"} |->
        CASE f \in {"resource_name", "parent_title"} -> RESOURCE_NAME_LENGTH
          [] f = "publisher" -> PUBLISHER_LENGTH
          [] f = "publisher_ID" -> PUBLISHER_ID_LENGTH
          [] f = "platform" -> PLATFORM_LENGTH
          [] f \in {"authors", "parent_authors"} -> AUTHORS_LENGTH
          [] f \in {"DOI", "parent_DOI"} -> DOI_LENGTH
          [] f \in {"proprietary_ID", "parent_proprietary_ID"} -> PROPRIETARY_ID_LENGTH
          [] f \in {"URI", "parent_URI"} -> URI_LENGTH]

\* C3: every returned row keeps every populated length-guarded column within
\* the column's declared maximum.
C3_RowsWithinMaxLength ==
    c_result.kind = "ok" =>
        \A p \in 1..Len(c_result.df) :
            \A f \in (DOMAIN MaxLengthOf) \cap (DOMAIN c_result.df[p]) :
                IsStr(c_result.df[p][f]) => Len(c_result.df[p][f].s) <= MaxLengthOf[f]

\* ------------------------------------------------ the check for stored usage
\* the check gave back a dataframe (not None)
CheckSucceeded == d_pc \in {"checked", "loaded"} /\ d_result.records_to_load.kind = "df"
\* how often a dataframe holds the row of df with the given index label
TimesIn(frame, label) == Cardinality({k \in 1..Len(frame) : frame[k].index = label})
\* the relation holds a row of the combination of the given row
Stored(row) == CountQuery(COUNTERData, Combination(row)) > 0
\* the message of the check names the combination of the given row
Reported(row) ==
    /\ d_result.message.kind = "already_in_database"
    /\ \E k \in 1..Len(d_result.message.lines) :
          /\ d_result.message.lines[k].statistics_source_ID = row.statistics_source_ID
          /\ d_result.message.lines[k].report_type = row.report_type
          /\ d_result.message.lines[k].usage_date = ISOFormat(row.usage_date)

\* C4: with the runs one after the other (check, then load of the returned
\* records), a dataframe whose combinations of statistics source, report type
\* and usage date are stored is reported and none of its records of a stored
\* combination is loaded: no run loads a record whose combination the relation
\* already held.
C4_NoStoredCombinationLoadedAgain ==
    /\ loaded_over_stored = {}
    /\ (d_pc = "checked" /\ CheckSucceeded) =>
          \A k \in 1..Len(df) :
              Stored(df[k].row) =>
                  /\ Reported(df[k].row)
                  /\ TimesIn(d_result.records_to_load.rows, df[k].index) = 0

\* C5: when the check succeeds, a record is among the records already present
\* exactly if the relation holds a row of its own combination, and every other
\* record is among the records to load.
C5_PresentIffCombinationStored ==
    (d_pc = "checked" /\ CheckSucceeded) =>
        \A k \in 1..Len(df) :
            /\ TimesIn(records_to_remove, df[k].index) > 0 <=> Stored(df[k].row)
            /\ TimesIn(records_to_remove, df[k].index) = 0 =>
                  TimesIn(d_result.records_to_load.rows, df[k].index) > 0

\* C6: when the check succeeds, the records to load and the records already
\* present are disjoint, hold every record of the dataframe exactly once
\* between them, and their sizes add up to the size of the dataframe, also
\* when the dataframe holds identical rows.
C6_OutcomePartitionsBatch ==
    CheckSucceeded =>
        /\ \A k \in 1..Len(df) :
              TimesIn(d_result.records_to_load.rows, df[k].index)
                 + TimesIn(records_to_remove, df[k].index) = 1
        /\ Len(d_result.records_to_load.rows) + Len(records_to_remove) = Len(df)

\* C7: when a query of the check fails (the count for a combination or the
\* name of a statistics source), the check ends there and returns None in
\* place of the records to load, with a message carrying the error of the
\* query, however many earlier queries succeeded or found stored combinations.
C7_FailedQueryFailsCheck ==
    query_response.kind = "str" =>
        /\ d_pc = "checked"
        /\ d_result.records_to_load = NoFrame
        /\ d_result.message.kind = "query_fail"
        /\ d_result.message.error = query_response.error
\* the name query for the second stored combination fails, after both counts
\* and the first name query succeeded
C7_Witness ==
    /\ query_response.kind = "str"
    /\ d_pc = "checked"
    /\ Len(matching_record_instances) = 2
    /\ instance_idx = 2
    /\ Len(records_to_remove) > 0

\* --------------------------------------------------- first_new_PK_value
\* the largest of a non-empty set of primary key values
MaxOf(keys) == CHOOSE k \in keys : \A j \in keys : k >= j

IsWrite(c) == c.call \in {"upload_fileobj", "upload_file"}

\* C9: when a call of save_unconverted_data_via_upload has ended, by a return
\* or by an exception, the temporary file it created no longer exists.
C9_TempFileGoneAtExit ==
    u_pc = "done" => ~directory[temp_file_name].exists

PayloadStored == [key |-> ObjectKey, content |-> data.content] \in bucket_objects
\* the text of the message says that the data is saved nowhere
StatesNotSaved(message) ==
    \E k \in 1..Len(MessageText(message)) : MessageText(message)[k] = NOT_SAVED_NOTICE

\* C11: whenever a call of save_unconverted_data_via_upload ends without the
\* data written to the bucket, the message it returns says explicitly that
\* the data has not been saved anywhere; the message of success is returned
\* only when a write succeeded.
C11_FailureSaysNotSaved ==
    u_pc = "done" =>
        /\ ~PayloadStored => (u_result.kind = "str" /\ StatesNotSaved(u_result.message))
        /\ (u_result.kind = "str" /\ u_result.message.kind = "success") => PayloadStored

\* C12: every object a call of save_unconverted_data_via_upload writes has
\* the key "raw-vendor-reports/" followed by the file name stem followed by
\* ".json" when the data is a dict and ".txt" otherwise.
C12_KeyIsPrefixStemExtension ==
    \A o \in bucket_objects :
        o.key = <<"raw-vendor-reports/", file_name_stem,
                  IF data.type = "dict" THEN ".json" ELSE ".txt">>
\* the stem 12_5 with a string: raw-vendor-reports/12_5.txt
C12_Witness ==
    /\ u_pc = "done"
    /\ data.type = "str"
    /\ [key |-> <<"raw-vendor-reports/", "12_5", ".txt">>, content |-> data.content]
          \in bucket_objects

\* ------------------------------------------------ create_dataframe, further
\* C13: for a document whose Report_Items is empty and whose header has a
\* creation timestamp that parses, create_dataframe returns a dataframe
\* without records: it neither returns the empty dataframe of an abort nor
\* raises.
C13_NoItemsGivesNoRecords ==
    (c_pc = "done" /\ Items = <<>> /\ IsISOTimestamp(SUSHI_JSON_dictionary.Created)) =>
        c_result = Returned(<<>>)

\* C14: create_dataframe is a function of its document: a conversion of a
\* document ends as every earlier conversion of that document ended, whatever
\* was converted in between, and with the same records in the same order
\* when it succeeds.
C14_SameDocumentSameResult ==
    c_pc = "done" =>
        \A k \in 1..Len(conversions) :
            conversions[k].document = SUSHI_JSON_dictionary =>
                conversions[k].result = c_result
\* a document is converted, then another one, then the first again, with records
C14_Witness ==
    /\ c_pc = "done"
    /\ Len(conversions) = 2
    /\ conversions[1].document = SUSHI_JSON_dictionary
    /\ conversions[2].document # SUSHI_JSON_dictionary
    /\ conversions[2].result.kind = "ok"
    /\ c_result.kind = "ok"
    /\ Len(c_result.df) >= 2

\* the lengths of the strings a JSON value holds
RECURSIVE StringLengths(_)
StringLengths(v) ==
    IF "t" \notin DOMAIN v
    THEN IF "Value" \in DOMAIN v THEN StringLengths(v.Value)
         ELSE IF "Name" \in DOMAIN v THEN StringLengths(v.Name)
         ELSE {}
    ELSE IF v.t = "str" THEN {Len(v.s)}
    ELSE IF v.t = "list" THEN UNION {StringLengths(v.l[k]) : k \in 1..Len(v.l)}
    ELSE IF v.t = "dict"
    THEN UNION {StringLengths(v.entries[k].value) : k \in 1..Len(v.entries)}
    ELSE {}
\* the lengths of the strings of the item create_dataframe is at
CurrentItemLengths ==
    UNION {StringLengths(CurrentItem[k].value) : k \in 1..Len(CurrentItem)}
\* the last logging.error message
LastError == error_log[Len(error_log)]

\* C15: when a value of a guarded field is longer than the field, the length
\* logged with the abort is ceil(n * 1.1) for the length n of that value.
C15_SuggestedLengthIsCeiling ==
    c_result = Aborted =>
        /\ error_log # <<>>
        /\ \E n \in CurrentItemLengths : LastError.length = ((11 * n) + 9) \div 10
\* C15 as amended: the length logged with the abort is floor(n * 1.1), the
\* length n of the value plus a tenth of it with the fraction dropped.
C15_SuggestedLengthIsFloor ==
    c_result = Aborted =>
        /\ error_log # <<>>
        /\ \E n \in CurrentItemLengths :
              /\ n > PUBLISHER_ID_LENGTH
              /\ LastError.length = (11 * n) \div 10
\* a title of 2001 characters: 2201 is logged, and ceil(2201.1) is 2202
C15_Witness ==
    /\ c_result = Aborted
    /\ RESOURCE_NAME_LENGTH + 1 \in CurrentItemLengths
    /\ LastError = [field |-> "resource_name", length |-> 2201]

\* C16: when create_dataframe stops at a value that is too long, the value
\* it returns holds the name of that field and the length to raise it to,
\* the two facts the error log was given.
C16_AbortCarriesFieldAndLength ==
    c_result.kind = "abort" =>
        /\ error_log # <<>>
        /\ {"field", "length"} \subseteq DOMAIN c_result
        /\ c_result.field = LastError.field
        /\ c_result.length = LastError.length

\* --------------------------------------------------------------- ISSNs
\* the whole of s is four digits, a hyphen, three digits, a digit or x or X,
\* and then nothing but whitespace
WholeISSN(s) ==
    /\ Len(s) >= 9
    /\ \A k \in {1, 2, 3, 4, 6, 7, 8} : s[k] \in Digits
    /\ s[5] = "-"
    /\ s[9] \in Digits \cup {"x", "X"}
    /\ \A k \in 10..Len(s) : s[k] \in Whitespace
\* the ISSN value the one item of the document holds, and the field it is for
GivenISSN == ISSNInput(Items[1] - Len(ItemCatalog) - 1)
GivenISSNField ==
    LET kind == ISSNKind(Items[1] - Len(ItemCatalog) - 1)
    IN  (IF kind.parent THEN "parent_" ELSE "")
            \o (IF kind.type = T_Print_ISSN THEN "print_ISSN" ELSE "online_ISSN")
\* the ISSN field of record_dict has its value
ISSNStored == Has(record_dict, GivenISSNField)
StoredISSN == record_dict[GivenISSNField].s
\* first five characters, a hyphen, last four characters
HyphenJoined(head, tail) == Prefix(head, 5) \o HYPHEN \o Suffix(tail, 4)

\* C17: an ISSN is stored as given, trimmed, exactly when the whole of it
\* matches the ISSN pattern; any other value is stored in its repaired form.
C17_WholeMatchStoredAsIs ==
    ISSNStored =>
        IF WholeISSN(GivenISSN)
        THEN StoredISSN = Strip(GivenISSN)
        ELSE StoredISSN \in {HyphenJoined(GivenISSN, Strip(GivenISSN)),
                             HyphenJoined(Strip(GivenISSN), Strip(GivenISSN))}

\* C18: a value that does not match the ISSN pattern, not even at its start,
\* is stored as the first five characters of the trimmed value, a hyphen and
\* the last four characters of the trimmed value.
C18_RepairUsesTrimmedValue ==
    (ISSNStored /\ ~MatchISSN(GivenISSN)) =>
        StoredISSN = HyphenJoined(Strip(GivenISSN), Strip(GivenISSN))

\* --------------------------------------------------------------- authors
\* the names of the authors in the Item_Contributors list of some entries
AuthorNamesIn(entries) ==
    LET lists == ValuesOf(entries, "Item_Contributors")
        authors == SelectSeq((CHOOSE v \in lists : TRUE).l,
                             LAMBDA e : MatchAuthor(e.Type))
    IN  IF lists = {} THEN <<>> ELSE [k \in 1..Len(authors) |-> authors[k].Name.s]
\* the names given for a field of item i: its own authors or its parent's
GivenAuthorNames(i, field) ==
    IF field = "authors" THEN AuthorNamesIn(ItemAt(i))
    ELSE LET parents == ValuesOf(ItemAt(i), "Item_Parent")
         IN  IF parents = {} THEN <<>>
             ELSE AuthorNamesIn((CHOOSE v \in parents : TRUE).entries)
\* the length of the first k names joined with "; "
RECURSIVE JoinedLength(_, _)
JoinedLength(names, k) ==
    IF k = 0 THEN 0
    ELSE IF k = 1 THEN Len(names[1])
    ELSE JoinedLength(names, k - 1) + 2 + Len(names[k])
\* some name does not fit after the names before it
TooManyAuthors(names) ==
    \E k \in 2..Len(names) :
        JoinedLength(names, k - 1) + Len(names[k]) + 8 > AUTHORS_LENGTH
\* how often " et al." stands in s
EtAlCount(s) ==
    Cardinality({k \in 1..(Len(s) - Len(ET_AL) + 1) :
                    SubSeq(s, k, k + Len(ET_AL) - 1) = ET_AL})

\* C19: when the authors of an item or of its parent do not all fit, the
\* conversion goes on to its end and the field's value ends with " et al.",
\* which stands in it once.
C19_TooManyAuthorsEndInEtAl ==
    c_pc = "done" =>
        \A i \in 1..Len(Items) : \A field \in {"authors", "parent_authors"} :
            TooManyAuthors(GivenAuthorNames(i, field)) =>
                /\ c_result.kind = "ok"
                /\ \A p \in 1..Len(origin) :
                      origin[p] = i =>
                          /\ field \in DOMAIN c_result.df[p]
                          /\ IsStr(c_result.df[p][field])
                          /\ EndsWith(c_result.df[p][field].s, ET_AL)
                          /\ EtAlCount(c_result.df[p][field].s) = 1

\* C20: whatever relation name first_new_PK_value is given, it returns an
\* integer or an error message; when the query fails it returns the message
\* with the error the query raised, and it has handed query_database one
\* query and no more.
C20_IntOrErrorAndOneQuery ==
    k_pc = "done" =>
        /\ k_result.kind \in {"int", "str"}
        /\ largest_PK_value.kind = "str" =>
              /\ k_result = StrResult(largest_PK_value)
              /\ k_result.message.error \in StorageErrors
              /\ Len(k_queries) = 1

\* ------------------------------------------------------ the order of records
\* the Performance payload of item i ([] when it has none)
PerformanceOf(i) ==
    LET perfs == ValuesOf(ItemAt(i), "Performance")
    IN  IF perfs = {} THEN <<>> ELSE (CHOOSE v \in perfs : TRUE).l
\* what the instances of one period are to give, in their order
ExpectedOfPeriod(i, pg) ==
    [k \in 1..Len(pg.Instance) |->
        [item |-> i, usage_date |-> FromISOFormat(pg.Period.Begin_Date),
         metric_type |-> pg.Instance[k].Metric_Type,
         usage_count |-> pg.Instance[k].Count]]
RECURSIVE ExpectedOfPeriods(_, _, _)
ExpectedOfPeriods(i, perf, k) ==
    IF k > Len(perf) THEN <<>>
    ELSE ExpectedOfPeriod(i, perf[k]) \o ExpectedOfPeriods(i, perf, k + 1)
RECURSIVE ExpectedUpTo(_)
\* what the first i items are to give, in document order
ExpectedUpTo(i) ==
    IF i = 0 THEN <<>>
    ELSE ExpectedUpTo(i - 1) \o ExpectedOfPeriods(i, PerformanceOf(i), 1)

\* C24: the rows of a successful conversion stand in document order, items,
\* then periods, then instances, and each row has the begin date of its own
\* period and the metric type and count of its own instance.
C24_RecordsInDocumentOrder ==
    c_result.kind = "ok" =>
        LET expected == ExpectedUpTo(Len(Items)) IN
        /\ Len(c_result.df) = Len(expected)
        /\ \A p \in 1..Len(expected) :
              /\ origin[p] = expected[p].item
              /\ c_result.df[p]["usage_date"] = expected[p].usage_date
              /\ c_result.df[p]["metric_type"] = expected[p].metric_type
              /\ c_result.df[p]["usage_count"] = expected[p].usage_count
\* an item of two periods, of two instances and of one, and then another item
C24_Witness ==
    /\ c_result.kind = "ok"
    /\ Items = <<1, 4>>
    /\ Len(c_result.df) = 4
    /\ c_result.df[2]["metric_type"] = Str(M_UIR)
    /\ c_result.df[2]["usage_date"] = FromISOFormat(D_JAN)
    /\ c_result.df[3]["usage_date"] = FromISOFormat(D_FEB)

\* ------------------------------------------------------ items without usage
\* the items of the document that have performance entries
ItemsWithUsage == SelectSeq(Items, LAMBDA id : id \notin ZeroUsageItemIds)

\* C25: putting items with an empty Performance list into a document that
\* converts leaves it converting, and to the same records.
C25_ZeroUsageItemChangesNothing ==
    c_pc = "done" =>
        \A k \in 1..Len(conversions) :
            (/\ conversions[k].result.kind = "ok"
             /\ conversions[k].document.Created = SUSHI_JSON_dictionary.Created
             /\ conversions[k].document.Report_Items = ItemsWithUsage) =>
                c_result = conversions[k].result

\* --------------------------------------------------- one dictionary per item
\* the keys of an item that can give a column its value
ColumnSources(c) ==
    CASE c = "resource_name" -> {"Database", "Title", "Item"}
      [] c = "publisher" -> {"Publisher"}
      [] c = "publisher_ID" -> {"Publisher_ID"}
      [] c = "platform" -> {"Platform"}
      [] c = "authors" -> {"Item_Contributors"}
      [] c = "publication_date" -> {"Item_Dates"}
      [] c = "article_version" -> {"Item_Attributes"}
      [] c \in {"DOI", "proprietary_ID", "ISBN", "print_ISSN", "online_ISSN", "URI"} ->
            {"Item_ID"}
      [] c = "data_type" -> {"Data_Type"}
      [] c = "section_type" -> {"Section_Type"}
      [] c = "YOP" -> {"YOP"}
      [] c = "access_type" -> {"Access_Type"}
      [] c = "access_method" -> {"Access_Method"}
      [] c \in PerformanceFields -> {"Performance"}
      [] OTHER -> {"Item_Parent"}
KeysOfItem(i) == {ItemAt(i)[k].key : k \in 1..Len(ItemAt(i))}

\* C30: a row has a value in a column only when its own item has a key that
\* gives that column, whatever the items before it held; the one other value
\* of a row is the creation date of the report.
C30_RowsHoldOwnItemOnly ==
    c_result.kind = "ok" =>
        \A p \in 1..Len(c_result.df) : \A c \in DOMAIN c_result.df[p] :
            IF c = "report_creation_date"
            THEN c_result.df[p][c] = IsoparseDate(SUSHI_JSON_dictionary.Created)
            ELSE ~IsNone(c_result.df[p][c]) =>
                    ColumnSources(c) \cap KeysOfItem(origin[p]) # {}
\* an item with a Data_Type and after it an item without: the second item's
\* row has no data type
C30_Witness ==
    /\ c_result.kind = "ok"
    /\ Items = <<1, 4>>
    /\ c_result.df[3]["data_type"] = Str(<<"B">>)
    /\ origin[4] = 2
    /\ IsNone(c_result.df[4]["data_type"])

\* ------------------------------------------------------------ Publisher_ID
Uppers ==
    <<"A", "B", "C", "D", "E", "F", "G", "H", "I", "J", "K", "L", "M", "N", "O", "P",
      "Q", "R", "S", "T", "U", "V", "W", "X", "Y", "Z">>
Lowers ==
    <<"a", "b", "c", "d", "e", "f", "g", "h", "i", "j", "k", "l", "m", "n", "o", "p",
      "q", "r", "s", "t", "u", "v", "w", "x", "y", "z">>
\* s in lower case
Lower(s) ==
    [k \in 1..Len(s) |->
        IF \E u \in 1..Len(Uppers) : Uppers[u] = s[k]
        THEN Lowers[CHOOSE u \in 1..Len(Uppers) : Uppers[u] = s[k]]
        ELSE s[k]]
\* the type tag is Proprietary or Proprietary_ID, in whatever case
IsProprietaryTag(type) == Lower(type) \in {Lower(T_Proprietary), Lower(T_Proprietary_ID)}
\* the Publisher_ID list of the first item
GivenPublisherIDs == (CHOOSE v \in ValuesOf(ItemAt(1), "Publisher_ID") : TRUE).l
\* the value the list is to give: of its one entry, or of its first
\* proprietary entry
ExpectedPublisherID ==
    LET l == GivenPublisherIDs
        first == CHOOSE k \in 1..Len(l) :
                    /\ IsProprietaryTag(l[k].Type)
                    /\ \A j \in 1..(k - 1) : ~IsProprietaryTag(l[j].Type)
    IN  IF Len(l) = 1 THEN l[1].Value ELSE l[first].Value

\* C26: a Publisher_ID list of one entry gives that entry's value; a list of
\* several gives the value of its first entry tagged Proprietary or
\* Proprietary_ID in whatever case, whatever entries come after it.
C26_FirstProprietaryPublisherID ==
    (/\ c_pc = "done"
     /\ ValuesOf(ItemAt(1), "Publisher_ID") # {}
     /\ \/ Len(GivenPublisherIDs) = 1
        \/ \E k \in 1..Len(GivenPublisherIDs) : IsProprietaryTag(GivenPublisherIDs[k].Type)) =>
        /\ c_result.kind = "ok"
        /\ \A p \in 1..Len(c_result.df) :
              origin[p] = 1 =>
                  /\ "publisher_ID" \in DOMAIN c_result.df[p]
                  /\ c_result.df[p]["publisher_ID"] = ExpectedPublisherID

\* --------------------------------------------------------------- Item_Dates
\* the Item_Dates list given for a field of item i: its own or its parent's
GivenDates(i, field) ==
    LET parents == ValuesOf(ItemAt(i), "Item_Parent")
        entries == IF field = "publication_date" THEN ItemAt(i)
                   ELSE IF parents = {} THEN <<>>
                   ELSE (CHOOSE v \in parents : TRUE).entries
        lists == ValuesOf(entries, "Item_Dates")
    IN  IF lists = {} THEN <<>> ELSE (CHOOSE v \in lists : TRUE).l
SentinelDates ==
    {FromISOFormat(SENTINEL_1000), FromISOFormat(SENTINEL_1753),
     FromISOFormat(SENTINEL_1900)}
\* the dates the entries tagged Publication_Date give
PublicationDatesOf(l) ==
    {FromISOFormat(l[k].Value.s) :
        k \in {j \in 1..Len(l) : /\ l[j].Type = T_Publication_Date
                                 /\ IsStr(l[j].Value)
                                 /\ IsISODate(l[j].Value.s)}}

\* C27: whatever an Item_Dates list of an item or of its parent holds, the
\* conversion neither stops nor fails over it; a row's publication date, when
\* it has one, is the date of an entry tagged Publication_Date and is none of
\* 1000-01-01, 1753-01-01 and 1900-01-01.
C27_DatesNeverFailConversion ==
    c_pc = "done" =>
        \A i \in 1..Len(Items) : \A field \in {"publication_date", "parent_publication_date"} :
            GivenDates(i, field) # <<>> =>
                /\ c_result.kind = "ok"
                /\ \A p \in 1..Len(origin) :
                      (origin[p] = i /\ field \in DOMAIN c_result.df[p]
                          /\ ~IsNone(c_result.df[p][field])) =>
                          /\ c_result.df[p][field] \in PublicationDatesOf(GivenDates(i, field))
                          /\ c_result.df[p][field] \notin SentinelDates

\* ------------------------------------------------- the writes of one call
\* the places in s3_calls of the calls that write an object
Writes == {k \in 1..Len(s3_calls) : IsWrite(s3_calls[k])}
WritesWith(name) == {k \in Writes : s3_calls[k].call = name}
\* the call ended with a message that tells of the failed upload
FailureReported ==
    /\ u_result.kind = "str"
    /\ u_result.message.kind = "upload failed"

\* C28: one call of save_unconverted_data_via_upload tries to write the file
\* to the bucket once at most, and a write that fails ends the call with the
\* failure reported.
C28_AtMostOneWrite ==
    /\ Cardinality(Writes) <= 1
    /\ (u_pc = "done" /\ \E k \in Writes : s3_calls[k].outcome # "ok") => FailureReported
\* C28 as amended: one call tries upload_fileobj() once at most and
\* upload_file() once at most, the second only after no write succeeded; a
\* failed upload_file() ends the call with the failure reported.
C28_OneWritePerMethod ==
    /\ Cardinality(WritesWith("upload_fileobj")) <= 1
    /\ Cardinality(WritesWith("upload_file")) <= 1
    /\ \A k \in WritesWith("upload_file") : \A j \in Writes : j < k => s3_calls[j].outcome # "ok"
    /\ \A k \in WritesWith("upload_fileobj") : \A j \in Writes : k <= j
    /\ (u_pc = "done" /\ \E k \in WritesWith("upload_file") : s3_calls[k].outcome # "ok") =>
          FailureReported
\* upload_fileobj() failed, upload_file() failed, and the call said so
C28_Witness ==
    /\ u_pc = "done"
    /\ Cardinality(Writes) = 2
    /\ \A k \in Writes : s3_calls[k].outcome = "error"
    /\ FailureReported

\* ------------------------------------------------------ two workers at once
\* the locals of the worker that is running, as those of the other are kept
ThisWorker ==
    UploadLocals(data, file_name_stem, u_pc, temp_file_name, logging_message, u_result)
\* nothing was made to fail: every call of the S3 client was answered and the
\* worker's temporary file could be written
NothingFailed(w) ==
    /\ \A k \in 1..Len(s3_calls) : s3_calls[k].outcome = "ok"
    /\ w.u_result \notin {Raised("OSError"), Raised("TypeError")}
    /\ ~(w.u_result.kind = "str" /\ w.u_result.message.kind = "writing failed")
\* the key of the worker's object
KeyOf(w) ==
    <<PATH_WITHIN_BUCKET, w.file_name_stem,
      IF w.data.type = "dict" THEN ".json" ELSE ".txt">>
\* the worker's call returned the message of a successful upload and its
\* object holds its payload
SavedItsPayload(w) ==
    /\ w.u_result.kind = "str"
    /\ w.u_result.message.kind = "success"
    /\ [key |-> KeyOf(w), content |-> w.data.content] \in bucket_objects

\* C23: when two workers call save_unconverted_data_via_upload at the same
\* time with different payloads and stems and no call of theirs is made to
\* fail, both calls return and the object under each call's key holds the
\* payload of that call.
C23_EachWorkerSavesItsPayload ==
    (u_pc = "done" /\ u_other.u_pc = "done") =>
        \A w \in {ThisWorker, u_other} : NothingFailed(w) => SavedItsPayload(w)

\* ------------------------------------------------ the lines of the message
\* the lines of the message the check returned
ReportedLines ==
    IF d_result.message.kind = "already_in_database"
    THEN {d_result.message.lines[k] : k \in 1..Len(d_result.message.lines)}
    ELSE {}
\* a record of the dataframe carries the combination the line names
LineOfRecord(line, row) ==
    /\ line.statistics_source_ID = row.statistics_source_ID
    /\ line.report_type = row.report_type
    /\ line.usage_date = ISOFormat(row.usage_date)
    /\ line.statistics_source_name = statisticsSources[row.statistics_source_ID]

\* C29: every line of the message of the check names, as report type | usage
\* date | source name (ID source id), a combination that at least one record of
\* the dataframe carries, and no two lines name the same combination.
C29_LinesNameCombinationsOfBatch ==
    (d_pc = "checked" /\ d_result.message.kind = "already_in_database") =>
        /\ \A line \in ReportedLines : \E k \in 1..Len(df) : LineOfRecord(line, df[k].row)
        /\ Cardinality(ReportedLines) = Len(d_result.message.lines)

\* ------------------------------------------------- two ingestion runs at once
\* the dataframe and the locals of the worker that is running
ThisChecker ==
    CheckLocals(df, d_pc, combinations_to_check, combo_idx, query_response,
                total_number_of_matching_records, matching_record_instances,
                instance_idx, records_to_remove, d_result, load_response)
\* the combinations that records of both dataframes carry
SharedCombinations ==
    {Combination(df[k].row) : k \in 1..Len(df)}
        \cap {Combination(d_other.df[k].row) : k \in 1..Len(d_other.df)}
\* the worker's check gave back records to load and its message does not name
\* the combination
NotReported(w, combo) ==
    /\ w.d_result # NoAnswer
    /\ w.d_result.records_to_load.kind = "df"
    /\ \/ w.d_result.message = NoMessage
       \/ /\ w.d_result.message.kind = "already_in_database"
          /\ \A k \in 1..Len(w.d_result.message.lines) :
                \/ w.d_result.message.lines[k].statistics_source_ID # combo.statistics_source_ID
                \/ w.d_result.message.lines[k].report_type # combo.report_type
                \/ w.d_result.message.lines[k].usage_date # ISOFormat(combo.usage_date)
\* the worker's load_data_into_database call returned its success message
LoadSucceeded(w) == w.d_pc = "loaded" /\ w.load_response.kind = "loaded"
\* the records of the combination among the records the worker's check gave back
RecordsToLoad(w, combo) == Len(RowsOfInstance(w.d_result.records_to_load.rows, combo))

\* C21: two workers submit dataframes with the same combination of statistics
\* source, report type and usage date. When both checks have ended before either
\* load and the relation holds no row of the combination, neither check reports
\* it and both give back records of it to load; and when neither check reported
\* it and both loads succeeded, the relation holds the records of the
\* combination of both workers.
C21_BothBatchesLoaded ==
    \A combo \in SharedCombinations :
        /\ ( /\ d_pc = "checked" /\ d_other.d_pc = "checked"
             /\ CountQuery(COUNTERData, combo) = 0
             /\ query_response.kind # "str" /\ d_other.query_response.kind # "str" )
           => \A w \in {ThisChecker, d_other} :
                 NotReported(w, combo) /\ RecordsToLoad(w, combo) > 0
        /\ ( /\ NotReported(ThisChecker, combo) /\ NotReported(d_other, combo)
             /\ LoadSucceeded(ThisChecker) /\ LoadSucceeded(d_other) )
           => CountQuery(COUNTERData, combo)
                 = RecordsToLoad(ThisChecker, combo) + RecordsToLoad(d_other, combo)
\* both workers submitted the same record, neither check reported it, both
\* loads succeeded and the relation holds the record twice
C21_Witness ==
    /\ df = d_other.df
    /\ Len(df) > 0
    /\ NotReported(ThisChecker, Combination(df[1].row))
    /\ NotReported(d_other, Combination(df[1].row))
    /\ LoadSucceeded(ThisChecker) /\ LoadSucceeded(d_other)
    /\ CountQuery(COUNTERData, Combination(df[1].row))
          = 2 * RecordsToLoad(ThisChecker, Combination(df[1].row))
    /\ \E a, b \in 1..Len(COUNTERData) : a # b /\ COUNTERData[a] = COUNTERData[b]

\* ------------------------------------------- two workers key their batches
\* the locals of the worker that is running
ThisKeyWorker == KeyLocals(k_pc, PK_field, largest_PK_value, k_result, k_index, k_load)

\* C22: with two workers that each call first_new_PK_value and then load
\* their dataframe under the range that starts at the returned value, in
\* every interleaving no key of a dataframe about to be loaded is a key the
\* relation holds and the ranges of the two dataframes do not overlap.
C22_KeyRangesDisjoint ==
    /\ \A w \in {ThisKeyWorker, k_other} :
          w.k_pc = "keyed" => KeysOf(w.k_index) \cap PK_values = {}
    /\ KeysOf(k_index) \cap KeysOf(k_other.k_index) = {}

=============================================================================
